---- MODULE Spec2Model ----
(***************************************************************************)
(* Model of the gdevelop-mcp server's session layer: GDCoreManager,         *)
(* ProjectManager (the session registry), ProjectSession (one Document,     *)
(* its path, dirty flag and timestamps) and the project tools that drive    *)
(* them.  The Node.js process is single threaded: every action below is one *)
(* synchronous run of code between two awaits; an async call that suspends  *)
(* in file I/O occupies a slot of `calls` until its continuation runs.      *)
(***************************************************************************)
EXTENDS Integers, Sequences, FiniteSets, TLC

\* ------------------------------------------------------------------ bounds
\* Number of ProjectSession objects ever constructed.
MaxSessions == 2
\* Number of async calls that may be suspended at the same time.
MaxCalls == 2
\* Number of identifiers randomUUID() hands out.
MaxUuid == 1
\* Largest reading of the wall clock.
MaxTime == 1
\* Number of backup files createBackup may write.
MaxBackups == 1
\* Number of sessions the persistence specification works on.
SaveSessions == 1

\* ------------------------------------------------------------------ inputs
\* Explicit session identifiers; "" is the falsy value that makes the code
\* generate one.
ExplicitIds == {"a"}
\* Identifiers callers ask for; "b" is never given to open or create.
QueryIds == {"a", "b", "uuid1"}
NoId == ""
UuidNames == <<"uuid1", "uuid2", "uuid3">>
\* Paths as callers spell them: one file under two spellings and another file.
InputPaths == {"p.json", "/w/q.json"}
AbsPaths == {"/w/p.json", "/w/q.json"}
NoPath == ""
ProjectNames == {"Game"}
LayoutNames == {"Main Scene"}
Calls == 1..MaxCalls

VARIABLES
  sessions,   \* ProjectManager.sessions: Map in insertion order, <<[id, ref]>>
  sess,       \* heap of ProjectSession objects, by reference
  projects,   \* heap of GDProject objects (the Documents), by reference
  disk,       \* file system: absolute path -> file content or NoFile
  backups,    \* backup files written by createBackup, oldest first: [of, content]
  calls,      \* suspended async calls
  uuidCount,  \* identifiers handed out by randomUUID()
  core,       \* GDCoreManager: gdtools set, initPromise, the initializer's place
  last        \* the call or continuation that ran last, and its outcome

vars == <<sessions, sess, projects, disk, backups, calls, uuidCount, core,
          last>>

\* ------------------------------------------------------------ pure helpers

\* path.resolve: a relative path is taken from the working directory /w.
Resolve(p) == IF p = "p.json" THEN "/w/p.json" ELSE p

\* new gd.Project(): an empty Document with the library's defaults.
EmptyProject ==
  [name |-> "Project", version |-> "1.0.0", description |-> "", author |-> "",
   packageName |-> "com.example.gamename",
   layouts |-> <<>>, firstLayout |-> "",
   windowWidth |-> 800, windowHeight |-> 600, maxFPS |-> 60, minFPS |-> 20,
   objects |-> <<>>, variables |-> <<>>, resources |-> {}]

\* A layout as insertNewLayout makes it: no objects, no initial instances,
\* no variables, no events, and the unnamed base layer.  objects holds the
\* scene's objects; instances holds, for each initial instance in container
\* order, the object name it refers to and the name of its layer; hidden
\* holds the names of the layers whose visibility is off.
EmptyLayout(name) ==
  [name |-> name, objects |-> <<>>, instances |-> <<>>, layers |-> <<"">>,
   hidden |-> {}, variables |-> <<>>, events |-> <<>>]

\* project.serializeTo + Serializer.toJSON: the project file's tree.
Serialize(d) ==
  [exists |-> TRUE,
   properties |-> [name |-> d.name, version |-> d.version,
                   description |-> d.description, author |-> d.author,
                   packageName |-> d.packageName,
                   windowWidth |-> d.windowWidth,
                   windowHeight |-> d.windowHeight,
                   maxFPS |-> d.maxFPS, minFPS |-> d.minFPS],
   firstLayout |-> d.firstLayout,
   layouts |-> d.layouts,
   objects |-> d.objects,
   variables |-> d.variables,
   resources |-> d.resources]

\* gdtools.loadProject: the Document a project file unserializes to.
Unserialize(f) ==
  [name |-> f.properties.name, version |-> f.properties.version,
   description |-> f.properties.description, author |-> f.properties.author,
   packageName |-> f.properties.packageName,
   layouts |-> f.layouts,
   firstLayout |-> f.firstLayout,
   windowWidth |-> f.properties.windowWidth,
   windowHeight |-> f.properties.windowHeight,
   maxFPS |-> f.properties.maxFPS, minFPS |-> f.properties.minFPS,
   objects |-> f.objects, variables |-> f.variables,
   resources |-> f.resources]

NoFile == [exists |-> FALSE]

\* ------------------------------------------------------- the registry Map
IndexOf(m, id) ==
  IF \E i \in 1..Len(m) : m[i].id = id
  THEN CHOOSE i \in 1..Len(m) : m[i].id = id
  ELSE 0

\* Map.has
\* (faulty variant: the conflict test never finds the id)
MapHas_never(m, id) == FALSE
MapHas(m, id) == IndexOf(m, id) # 0

\* Map.get (0 is undefined)
MapGet(m, id) == IF MapHas(m, id) THEN m[IndexOf(m, id)].ref ELSE 0

\* Map.set: an existing key keeps its place, a new key goes last.
MapSet(m, id, ref) ==
  IF IndexOf(m, id) # 0
  THEN [m EXCEPT ![IndexOf(m, id)].ref = ref]
  ELSE Append(m, [id |-> id, ref |-> ref])

\* Map.delete
\* (faulty variant: the entry is not removed)
MapDelete_keep(m, id) == m
MapDelete(m, id) ==
  LET k == IndexOf(m, id) IN
  IF k = 0 THEN m
  ELSE [i \in 1..(Len(m) - 1) |-> IF i < k THEN m[i] ELSE m[i + 1]]

Registered == {sessions[i].id : i \in 1..Len(sessions)}

\* ------------------------------------------------------------ the session
\* new ProjectSession(id, project, projectPath, gdcoreManager)
NewSession(id, proj, path, t) ==
  [id |-> id, project |-> proj, projectPath |-> path, dirty |-> FALSE,
   createdAt |-> t, lastModifiedAt |-> t]

\* ProjectSession.markDirty
\* (faulty variant: the timestamp is updated but the flag is not set)
MarkDirty_noflag(s, t) == [s EXCEPT !.lastModifiedAt = t]
MarkDirty(s, t) == [s EXCEPT !.dirty = TRUE, !.lastModifiedAt = t]

\* new Date(): the clock never runs backwards, so a reading is the latest
\* timestamp any session holds, or later.
LatestStamp ==
  LET Stamps == {sess[i].createdAt : i \in 1..Len(sess)} \cup
                {sess[i].lastModifiedAt : i \in 1..Len(sess)} \cup {0}
  IN CHOOSE t \in Stamps : \A u \in Stamps : u <= t
Clock ==
  {LatestStamp, IF LatestStamp < MaxTime THEN LatestStamp + 1 ELSE MaxTime}

Idle == [op |-> "none", pc |-> "idle", id |-> NoId, ref |-> 0, save |-> FALSE,
         path |-> NoPath, savePath |-> NoPath, content |-> NoFile, pos |-> 0,
         createBackup |-> FALSE, backupPath |-> NoPath]

\* What the call or continuation that ran last did: the operation, the session
\* identifier and session object it was about, how it ended ("pending":
\* suspended in an await), for a save, the savePath it was given, whether
\* a backup was asked for and the file the backup was made of (the tool's
\* backupPath, NoPath when undefined) and, in out, what a tool that answers
\* with a list or an index returned.
Result(op, c, id, ref, res) ==
  [op |-> op, id |-> id, ref |-> ref, result |-> res, arg |-> NoPath,
   createBackup |-> FALSE, backupPath |-> NoPath, out |-> <<>>]

\* A new async call takes the first free slot.
Free(c) == calls[c] = Idle /\ \A c2 \in Calls : c2 < c => calls[c2] # Idle

PendingOpens == Cardinality({c \in Calls : calls[c].op = "openProject"})

\* ----------------------------------------------------------- GDCoreManager
\* The GDCoreManager record: gdtools and initPromise (null in a new one),
\* loads, which counts the calls of loadGD, and pc, where the initializer is
\* suspended.
\* The GDCoreManager once main() has awaited initialize() with success, which
\* it does before it builds the ProjectManager and serves any tool.
CoreReady ==
  [gdtools |-> TRUE, initPromise |-> "resolved", pc |-> "idle", loads |-> 1]

\* ------------------------------------------------------------------- Init
\* One project file exists at /w/p.json; /w/q.json does not exist.
Init ==
  /\ sessions = <<>>
  /\ sess = <<>>
  /\ projects = <<>>
  /\ disk = [p \in AbsPaths |->
               IF p = "/w/p.json"
               THEN Serialize([EmptyProject EXCEPT !.name = "Game"])
               ELSE NoFile]
  /\ backups = <<>>
  /\ calls = [c \in Calls |-> Idle]
  /\ uuidCount = 0
  /\ core = CoreReady
  /\ last = Result("init", 0, NoId, 0, "ok")

\* ------------------------------------------- GDCoreManager.initialize
\* if (this.initPromise): a promise was stored by an earlier call.
\* (faulty variant: a promise that is still pending does not count)
HasInitPromise_settledOnly(co) == co.initPromise \in {"resolved", "rejected"}
HasInitPromise(co) == co.initPromise # "null"

\* initialize(version): a stored promise is returned as it is; otherwise the
\* initializer starts, runs up to its await on import('gdcore-tools'), and
\* its promise is stored.  The caller waits for the promise it was given.
Initialize(c) ==
  /\ Free(c)
  /\ core' = IF HasInitPromise(core) THEN core
             ELSE [core EXCEPT !.initPromise = "pending", !.pc = "import"]
  /\ calls' = [calls EXCEPT ![c] =
                 [Idle EXCEPT !.op = "initialize", !.pc = "awaiting"]]
  /\ last' = Result("initialize", c, NoId, 0, "pending")
  /\ UNCHANGED <<sessions, sess, projects, disk, backups, uuidCount>>

\* The initializer after the import resolved: loadGD(version) is called and
\* awaited.
ImportDone ==
  /\ core.pc = "import"
  /\ core' = [core EXCEPT !.pc = "loadGD", !.loads = @ + 1]
  /\ last' = Result("import", 0, NoId, 0, "ok")
  /\ UNCHANGED <<sessions, sess, projects, disk, backups, calls, uuidCount>>

\* The initializer after loadGD resolved: gdtools is stored, the two handlers
\* are registered, and the promise resolves.
LoadGDDone ==
  /\ core.pc = "loadGD"
  /\ core' = [core EXCEPT !.pc = "idle", !.gdtools = TRUE,
                          !.initPromise = "resolved"]
  /\ last' = Result("loadGD", 0, NoId, 0, "ok")
  /\ UNCHANGED <<sessions, sess, projects, disk, backups, calls, uuidCount>>

\* The import or loadGD rejected: the error is logged and thrown again, the
\* stored promise rejects, and gdtools stays null.
InitializeFailed ==
  /\ core.pc \in {"import", "loadGD"}
  /\ core' = [core EXCEPT !.pc = "idle", !.initPromise = "rejected"]
  /\ last' = Result(core.pc, 0, NoId, 0, "LoadFailure")
  /\ UNCHANGED <<sessions, sess, projects, disk, backups, calls, uuidCount>>

\* A caller's await on the promise initialize() returned settles.
InitializeSettled(c) ==
  /\ calls[c].op = "initialize"
  /\ core.initPromise \in {"resolved", "rejected"}
  /\ calls' = [calls EXCEPT ![c] = Idle]
  /\ last' = Result("initialize", c, NoId, 0,
                    IF core.initPromise = "resolved" THEN "ok"
                    ELSE "LoadFailure")
  /\ UNCHANGED <<sessions, sess, projects, disk, backups, uuidCount, core>>

\* getGDTools(), called from one of its sites: throws while gdtools is null.
GetGDTools(site) ==
  /\ last' = [Result("getGDTools", 0, NoId, 0,
                     IF core.gdtools THEN "ok" ELSE "NotInitialized")
                EXCEPT !.arg = site]
  /\ UNCHANGED <<sessions, sess, projects, disk, backups, calls, uuidCount,
                 core>>

\* isInitialized()
IsInitialized ==
  /\ last' = Result("isInitialized", 0, NoId, 0,
                    IF core.gdtools THEN "true" ELSE "false")
  /\ UNCHANGED <<sessions, sess, projects, disk, backups, calls, uuidCount,
                 core>>

\* ------------------------------------------------- GDProject and its heap
\* ProjectSession.dispose: project.delete() releases the native object.
Dispose(ps, s) ==
  IF s.project # 0 THEN [ps EXCEPT ![s.project].deleted = @ + 1] ELSE ps

\* ProjectSession.hasLayout
\* (faulty variant: the check never finds the layout)
HasLayout_never(d, name) == FALSE
HasLayout(d, name) == \E i \in 1..Len(d.layouts) : d.layouts[i].name = name

\* project.insertNewLayout(name, pos): at pos, or last when pos is past the end.
InsertNewLayout(d, name, pos) ==
  LET k == IF pos >= 0 /\ pos < Len(d.layouts) THEN pos ELSE Len(d.layouts) IN
  [d EXCEPT !.layouts =
     [i \in 1..(Len(@) + 1) |->
        IF i <= k THEN @[i]
        ELSE IF i = k + 1 THEN EmptyLayout(name) ELSE @[i - 1]]]

\* ProjectSession.save, up to its await: the path written and what is written.
SaveTarget(s, savePath) == IF savePath # NoPath THEN savePath ELSE s.projectPath

\* ProjectSession.save, after its await: when saveProject rejected (ok is
\* FALSE) the error leaves save before the two assignments.
\* (faulty variant: a successful save does not clear the flag)
SaveFinish_staysDirty(s, savePath, ok) ==
  IF ok
  THEN [s EXCEPT !.projectPath = IF savePath # NoPath THEN savePath ELSE @]
  ELSE s
\* (faulty variant: the session stays at its old path after save(savePath))
SaveFinish_keepsPath(s, savePath, ok) ==
  IF ok THEN [s EXCEPT !.dirty = FALSE] ELSE s
\* (faulty variant: the assignments also run when the write failed)
SaveFinish_always(s, savePath, ok) ==
  [s EXCEPT !.dirty = FALSE,
            !.projectPath = IF savePath # NoPath THEN savePath ELSE @]
SaveFinish(s, savePath, ok) ==
  IF ok
  THEN [s EXCEPT !.dirty = FALSE,
                 !.projectPath = IF savePath # NoPath THEN savePath ELSE @]
  ELSE s

\* gdtools.saveProject(project, basename, dirname): the file is written at
\* dirname/basename, taken from the working directory when relative.
WriteFile(d, target, content) == [d EXCEPT ![Resolve(target)] = content]

\* A live Map iterator after the entry at index k was deleted.
AdjustIter(cs, k) ==
  [c \in Calls |->
     IF cs[c].op = "closeAllSessions" /\ k # 0 /\ cs[c].pos >= k
     THEN [cs[c] EXCEPT !.pos = @ - 1]
     ELSE cs[c]]

\* sessionId || randomUUID()
IdFor(sessionId) ==
  IF sessionId # NoId THEN sessionId ELSE UuidNames[uuidCount + 1]

UuidStep(sessionId) ==
  /\ sessionId = NoId => uuidCount < MaxUuid
  /\ uuidCount' = IF sessionId # NoId THEN uuidCount ELSE uuidCount + 1
  /\ UNCHANGED core

\* ------------------------------------------------------- ProjectManager
\* openProject up to its await on loadProject, which rejects at once when
\* getGDTools throws.
OpenProject(c, projectPath, sessionId) ==
  /\ Free(c)
  /\ UuidStep(sessionId)
  /\ LET id == IdFor(sessionId) IN
     IF MapHas(sessions, id)
     THEN /\ last' = Result("openProject", c, id, 0, "SessionConflict")
          /\ UNCHANGED <<sessions, sess, projects, disk, backups, calls>>
     ELSE IF ~core.gdtools
     THEN /\ last' = Result("openProject", c, id, 0, "NotInitialized")
          /\ UNCHANGED <<sessions, sess, projects, disk, backups, calls>>
     ELSE /\ Len(sess) + PendingOpens < MaxSessions
          /\ calls' = [calls EXCEPT ![c] =
               [Idle EXCEPT !.op = "openProject", !.pc = "loading", !.id = id,
                            !.path = Resolve(projectPath)]]
          /\ last' = Result("openProject", c, id, 0, "pending")
          /\ UNCHANGED <<sessions, sess, projects, disk, backups>>

\* gdcoreManager.loadProject: every call builds a GDProject of its own, the
\* next object of the heap.
\* (faulty variant: the object held by an earlier session is handed out again)
LoadedRef_cached(ps, doc) ==
  IF \E i \in 1..Len(ps) : ps[i].deleted = 0
  THEN CHOOSE i \in 1..Len(ps) : ps[i].deleted = 0
  ELSE Len(ps) + 1
LoadedRef(ps, doc) == Len(ps) + 1

\* openProject after loadProject resolved: the session is built and registered.
OpenLoaded(c) ==
  /\ calls[c].op = "openProject"
  /\ disk[calls[c].path].exists
  /\ \E t \in Clock :
       /\ projects' = Append(projects,
            [doc |-> Unserialize(disk[calls[c].path]), deleted |-> 0])
       /\ sess' = Append(sess,
            NewSession(calls[c].id,
                       LoadedRef(projects, Unserialize(disk[calls[c].path])),
                       calls[c].path, t))
       /\ sessions' = MapSet(sessions, calls[c].id, Len(sess) + 1)
       /\ last' = Result("openProject", c, calls[c].id, Len(sess) + 1, "ok")
  /\ calls' = [calls EXCEPT ![c] = Idle]
  /\ UNCHANGED <<disk, backups, uuidCount, core>>

\* openProject when loadProject rejects: no file to read.
OpenLoadFailed(c) ==
  /\ calls[c].op = "openProject"
  /\ ~disk[calls[c].path].exists
  /\ last' = Result("openProject", c, calls[c].id, 0, "IOFailure")
  /\ calls' = [calls EXCEPT ![c] = Idle]
  /\ UNCHANGED <<sessions, sess, projects, disk, backups, uuidCount, core>>

\* createProject builds the Document in memory; it calls nothing that writes.
\* (faulty variant: the new Document is written at once)
CreateStorage_writes(d, path, doc) == WriteFile(d, path, Serialize(doc))
CreateStorage(d, path, doc) == d

\* createProject: no await, it runs to its end.
CreateProject(projectPath, name, sessionId) ==
  /\ UuidStep(sessionId)
  /\ LET id == IdFor(sessionId) IN
     IF MapHas(sessions, id)
     THEN /\ last' = Result("createProject", 0, id, 0, "SessionConflict")
          /\ UNCHANGED <<sessions, sess, projects, disk, backups, calls>>
     ELSE IF ~core.gdtools
     THEN /\ last' = Result("createProject", 0, id, 0, "NotInitialized")
          /\ UNCHANGED <<sessions, sess, projects, disk, backups, calls>>
     ELSE /\ Len(sess) + PendingOpens < MaxSessions
          /\ \E t \in Clock :
               /\ projects' = Append(projects,
                    [doc |-> [EmptyProject EXCEPT !.name = name],
                     deleted |-> 0])
               /\ sess' = Append(sess,
                    MarkDirty(NewSession(id, Len(projects) + 1,
                                         Resolve(projectPath), t), t))
          /\ sessions' = MapSet(sessions, id, Len(sess) + 1)
          /\ disk' = CreateStorage(disk, Resolve(projectPath),
                                   [EmptyProject EXCEPT !.name = name])
          /\ last' = Result("createProject", 0, id, Len(sess) + 1, "ok")
          /\ UNCHANGED <<backups, calls>>

\* getSession
GetSession(sessionId) ==
  /\ last' = Result("getSession", 0, sessionId, MapGet(sessions, sessionId),
                    IF MapGet(sessions, sessionId) = 0
                    THEN "SessionNotFound" ELSE "ok")
  /\ UNCHANGED <<sessions, sess, projects, disk, backups, calls, uuidCount, core>>

\* listSessions: a snapshot of every live session, nothing changes.
ListSessions ==
  /\ last' = Result("listSessions", 0, NoId, 0, "ok")
  /\ UNCHANGED <<sessions, sess, projects, disk, backups, calls, uuidCount, core>>

\* listSessions: the summary it returns, one entry per registered session in
\* registration order.
SessionSummaries ==
  [i \in 1..Len(sessions) |->
     LET s == sess[sessions[i].ref] IN
     [sessionId |-> s.id, projectPath |-> s.projectPath,
      projectName |-> projects[s.project].doc.name, isDirty |-> s.dirty,
      createdAt |-> s.createdAt, lastModifiedAt |-> s.lastModifiedAt]]

\* closeSession: the condition under which it saves first.
\* (faulty variant: close saves unconditionally)
CloseSaves_always(s, save) == TRUE
CloseSaves(s, save) == save /\ s.dirty

\* closeSession up to its await on save, or to its end when it does not save.
CloseSession(c, sessionId, save) ==
  /\ Free(c)
  /\ LET ref == MapGet(sessions, sessionId) IN
     IF ref = 0
     THEN /\ last' = Result("closeSession", c, sessionId, 0, "false")
          /\ UNCHANGED <<sessions, sess, projects, disk, backups, calls>>
     ELSE IF CloseSaves(sess[ref], save)
     THEN /\ calls' = [calls EXCEPT ![c] =
               [Idle EXCEPT !.op = "closeSession", !.pc = "saving",
                            !.id = sessionId, !.ref = ref, !.save = save,
                            !.path = SaveTarget(sess[ref], NoPath),
                            !.content = Serialize(projects[sess[ref].project].doc)]]
          /\ last' = Result("closeSession", c, sessionId, ref, "pending")
          /\ UNCHANGED <<sessions, sess, projects, disk, backups>>
     ELSE /\ projects' = Dispose(projects, sess[ref])
          /\ sessions' = MapDelete(sessions, sessionId)
          /\ calls' = AdjustIter(calls, IndexOf(sessions, sessionId))
          /\ last' = Result("closeSession", c, sessionId, ref, "true")
          /\ UNCHANGED <<sess, disk, backups>>
  /\ UNCHANGED <<uuidCount, core>>

\* closeSession after its save resolved: dispose, remove, return true.
CloseSaveDone(c) ==
  /\ calls[c].op = "closeSession"
  /\ calls[c].pc = "saving"
  /\ LET ref == calls[c].ref IN
     /\ disk' = WriteFile(disk, calls[c].path, calls[c].content)
     /\ sess' = [sess EXCEPT ![ref] = SaveFinish(@, NoPath, TRUE)]
     /\ projects' = Dispose(projects, sess[ref])
     /\ sessions' = MapDelete(sessions, calls[c].id)
     /\ calls' = AdjustIter([calls EXCEPT ![c] = Idle],
                            IndexOf(sessions, calls[c].id))
     /\ last' = Result("closeSession", c, calls[c].id, ref, "true")
  /\ UNCHANGED <<backups, uuidCount, core>>

\* closeSession when its save rejects: the error leaves closeSession at once.
CloseSaveFailed(c) ==
  /\ calls[c].op = "closeSession"
  /\ calls' = [calls EXCEPT ![c] = Idle]
  /\ sess' = [sess EXCEPT ![calls[c].ref] = SaveFinish(@, NoPath, FALSE)]
  /\ last' = Result("closeSession", c, calls[c].id, calls[c].ref, "IOFailure")
  /\ UNCHANGED <<sessions, projects, disk, backups, uuidCount, core>>

\* closeAllSessions: one turn of its loop over the live iterator sessions.keys(),
\* from the iterator's place pos up to the next await.
CloseAllStep(c, pos, save) ==
  IF pos >= Len(sessions)
  THEN /\ calls' = [calls EXCEPT ![c] = Idle]
       /\ last' = Result("closeAllSessions", c, NoId, 0, "ok")
       /\ UNCHANGED <<sessions, sess, projects, disk, backups>>
  ELSE LET id == sessions[pos + 1].id
           ref == sessions[pos + 1].ref
           me == [Idle EXCEPT !.op = "closeAllSessions", !.id = id, !.ref = ref,
                              !.save = save, !.pos = pos + 1]
       IN
       IF CloseSaves(sess[ref], save)
       THEN /\ calls' = [calls EXCEPT ![c] =
                 [me EXCEPT !.pc = "saving",
                            !.path = SaveTarget(sess[ref], NoPath),
                            !.content = Serialize(projects[sess[ref].project].doc)]]
            /\ last' = Result("closeAllSessions", c, id, ref, "pending")
            /\ UNCHANGED <<sessions, sess, projects, disk, backups>>
       ELSE /\ projects' = Dispose(projects, sess[ref])
            /\ sessions' = MapDelete(sessions, id)
            /\ calls' = AdjustIter([calls EXCEPT ![c] = [me EXCEPT !.pc = "next"]],
                                   pos + 1)
            /\ last' = Result("closeAllSessions", c, id, ref, "closed")
            /\ UNCHANGED <<sess, disk, backups>>

\* closeAllSessions from the call to its first await.
CloseAllSessions(c, save) ==
  /\ Free(c)
  /\ CloseAllStep(c, 0, save)
  /\ UNCHANGED <<uuidCount, core>>

\* closeAllSessions resumed after a closeSession that did not have to save.
CloseAllNext(c) ==
  /\ calls[c].op = "closeAllSessions"
  /\ calls[c].pc = "next"
  /\ CloseAllStep(c, calls[c].pos, calls[c].save)
  /\ UNCHANGED <<uuidCount, core>>

\* closeAllSessions when the save of the session being closed resolved.
CloseAllSaveDone(c) ==
  /\ calls[c].op = "closeAllSessions"
  /\ calls[c].pc = "saving"
  /\ LET ref == calls[c].ref IN
     /\ disk' = WriteFile(disk, calls[c].path, calls[c].content)
     /\ sess' = [sess EXCEPT ![ref] = SaveFinish(@, NoPath, TRUE)]
     /\ projects' = Dispose(projects, sess[ref])
     /\ sessions' = MapDelete(sessions, calls[c].id)
     /\ calls' = AdjustIter([calls EXCEPT ![c].pc = "next"],
                            IndexOf(sessions, calls[c].id))
     /\ last' = Result("closeAllSessions", c, calls[c].id, ref, "closed")
  /\ UNCHANGED <<backups, uuidCount, core>>

\* closeAllSessions when that save rejects: the error leaves the loop.
CloseAllSaveFailed(c) ==
  /\ calls[c].op = "closeAllSessions"
  /\ calls[c].pc = "saving"
  /\ calls' = [calls EXCEPT ![c] = Idle]
  /\ sess' = [sess EXCEPT ![calls[c].ref] = SaveFinish(@, NoPath, FALSE)]
  /\ last' = Result("closeAllSessions", c, calls[c].id, calls[c].ref, "IOFailure")
  /\ UNCHANGED <<sessions, projects, disk, backups, uuidCount, core>>

\* ------------------------------------------------------------ the tools
\* ProjectSession.save from its call to its await, in call slot c.
SaveBegin(c, op, ref, savePath) ==
  [Idle EXCEPT !.op = op, !.pc = "saving", !.id = sess[ref].id, !.ref = ref,
               !.savePath = savePath,
               !.path = SaveTarget(sess[ref], savePath),
               !.content = Serialize(projects[sess[ref].project].doc)]

\* gdevelop_project_save up to its first await.
ProjectSave(c, sessionId, savePath, createBackup) ==
  /\ Free(c)
  /\ createBackup => Len(backups) < MaxBackups
  /\ LET ref == MapGet(sessions, sessionId) IN
     IF ref = 0
     THEN /\ last' = Result("projectSave", c, sessionId, 0, "SessionNotFound")
          /\ UNCHANGED calls
     ELSE /\ calls' = [calls EXCEPT ![c] =
               IF createBackup
               THEN [Idle EXCEPT !.op = "projectSave", !.pc = "backup",
                                 !.createBackup = TRUE,
                                 !.id = sessionId, !.ref = ref,
                                 !.savePath = savePath,
                                 !.path = sess[ref].projectPath]
               ELSE SaveBegin(c, "projectSave", ref, savePath)]
          /\ last' = Result("projectSave", c, sessionId, ref, "pending")
  /\ UNCHANGED <<sessions, sess, projects, disk, backups, uuidCount, core>>

\* ProjectSession.createBackup: fs.copyFile copies the file that is on disk at
\* the session's path; the Document in memory is not consulted.
\* (faulty variant: the backup is made from the Document in memory)
BackupContent_memory(d, path, doc) == Serialize(doc)
BackupContent(d, path, doc) == d[Resolve(path)]

\* gdevelop_project_save once createBackup settled: a rejected backup is caught
\* and logged, and in both cases the tool goes on to session.save(savePath).
\* (faulty variant: a rejected backup ends the call)
BackupSettled_abort(c, ok) ==
  IF ok
  THEN [SaveBegin(c, "projectSave", calls[c].ref, calls[c].savePath)
          EXCEPT !.createBackup = TRUE,
                 !.backupPath = Resolve(calls[c].path)]
  ELSE Idle
BackupSettled(c, ok) ==
  [SaveBegin(c, "projectSave", calls[c].ref, calls[c].savePath)
     EXCEPT !.createBackup = TRUE,
            !.backupPath = IF ok THEN Resolve(calls[c].path) ELSE NoPath]

\* gdevelop_project_save after createBackup settled: fs.copyFile copied the file
\* on disk, or failed and the failure was logged; then save starts.
ProjectSaveBackedUp(c) ==
  /\ calls[c].op = "projectSave"
  /\ calls[c].pc = "backup"
  /\ LET ok == disk[Resolve(calls[c].path)].exists
         doc == projects[sess[calls[c].ref].project].doc
     IN
     /\ backups' = IF ok
                   THEN Append(backups,
                          [of |-> Resolve(calls[c].path),
                           content |-> BackupContent(disk, calls[c].path, doc)])
                   ELSE backups
     /\ calls' = [calls EXCEPT ![c] = BackupSettled(c, ok)]
     /\ last' = Result("projectSave", c, calls[c].id, calls[c].ref,
                       IF ok THEN "backedUp" ELSE "backupFailed")
  /\ UNCHANGED <<sessions, sess, projects, disk, uuidCount, core>>

\* gdevelop_project_create up to its await on save.
ProjectCreate(c, projectPath, name, createInitialScene) ==
  /\ Free(c)
  /\ uuidCount < MaxUuid
  /\ Len(sess) + PendingOpens < MaxSessions
  /\ uuidCount' = uuidCount + 1
  /\ UNCHANGED core
  /\ LET id == UuidNames[uuidCount + 1]
         ref == Len(sess) + 1
         set == [EmptyProject EXCEPT !.name = name, !.windowWidth = 1280,
                                     !.windowHeight = 720, !.maxFPS = 60]
         doc == IF createInitialScene
                THEN [InsertNewLayout(set, "Main Scene", Len(set.layouts))
                        EXCEPT !.firstLayout = "Main Scene"]
                ELSE set
     IN
     \E t1 \in Clock : \E t2 \in {t1, IF t1 < MaxTime THEN t1 + 1 ELSE MaxTime} :
       /\ projects' = Append(projects, [doc |-> doc, deleted |-> 0])
       /\ sess' = Append(sess,
            IF createInitialScene
            THEN MarkDirty(MarkDirty(
                   NewSession(id, Len(projects) + 1, Resolve(projectPath), t1),
                   t1), t2)
            ELSE MarkDirty(
                   NewSession(id, Len(projects) + 1, Resolve(projectPath), t1),
                   t1))
       /\ sessions' = MapSet(sessions, id, ref)
       /\ calls' = [calls EXCEPT ![c] =
            [Idle EXCEPT !.op = "projectCreate", !.pc = "saving", !.id = id,
                         !.ref = ref, !.path = Resolve(projectPath),
                         !.content = Serialize(doc)]]
       /\ last' = Result("projectCreate", c, id, ref, "pending")
  /\ UNCHANGED <<disk, backups>>

\* A tool's await on ProjectSession.save resolved.
ToolSaveDone(c) ==
  /\ calls[c].op \in {"projectSave", "projectCreate"}
  /\ calls[c].pc = "saving"
  /\ disk' = WriteFile(disk, calls[c].path, calls[c].content)
  /\ sess' = [sess EXCEPT ![calls[c].ref] = SaveFinish(@, calls[c].savePath, TRUE)]
  /\ calls' = [calls EXCEPT ![c] = Idle]
  /\ last' = [Result(calls[c].op, c, calls[c].id, calls[c].ref, "ok")
                EXCEPT !.arg = calls[c].savePath,
                       !.createBackup = calls[c].createBackup,
                       !.backupPath = calls[c].backupPath]
  /\ UNCHANGED <<sessions, projects, backups, uuidCount, core>>

\* A tool's await on ProjectSession.save rejected.
ToolSaveFailed(c) ==
  /\ calls[c].op \in {"projectSave", "projectCreate"}
  /\ calls[c].pc = "saving"
  /\ calls' = [calls EXCEPT ![c] = Idle]
  /\ sess' = [sess EXCEPT ![calls[c].ref] =
                SaveFinish(@, calls[c].savePath, FALSE)]
  /\ last' = [Result(calls[c].op, c, calls[c].id, calls[c].ref, "IOFailure")
                EXCEPT !.arg = calls[c].savePath]
  /\ UNCHANGED <<sessions, projects, disk, backups, uuidCount, core>>

\* gdevelop_scene_create
SceneCreate(sessionId, name, setAsFirst) ==
  /\ LET ref == MapGet(sessions, sessionId) IN
     IF ref = 0
     THEN /\ last' = Result("sceneCreate", 0, sessionId, 0, "SessionNotFound")
          /\ UNCHANGED <<sess, projects>>
     ELSE LET d == projects[sess[ref].project].doc IN
          IF HasLayout(d, name)
          THEN /\ last' = Result("sceneCreate", 0, sessionId, ref, "DuplicateName")
               /\ UNCHANGED <<sess, projects>>
          ELSE \E t \in Clock :
                 /\ projects' = [projects EXCEPT ![sess[ref].project].doc =
                      IF setAsFirst
                      THEN [InsertNewLayout(d, name, Len(d.layouts))
                              EXCEPT !.firstLayout = name]
                      ELSE InsertNewLayout(d, name, Len(d.layouts))]
                 /\ sess' = [sess EXCEPT ![ref] = MarkDirty(@, t)]
                 /\ last' = Result("sceneCreate", 0, sessionId, ref, "ok")
  /\ UNCHANGED <<sessions, disk, backups, calls, uuidCount, core>>

\* ------------------------------------------------------ scenes (layouts)
\* Scene names callers use, and positions they ask for (0-based; -1 is
\* before every list, and 2 is the last place of three scenes and past the
\* end of a shorter list).
SceneNames == {"Main Scene", "Level"}
\* Names a scene can have after a rename, and that callers ask about.
AllSceneNames == SceneNames \cup {"Menu"}
Positions == {-1, 0, 2}

\* project.getLayoutPosition(name): 0-based index, -1 when there is none.
LayoutPosition(d, name) ==
  IF HasLayout(d, name)
  THEN (CHOOSE i \in 1..Len(d.layouts) :
          /\ d.layouts[i].name = name
          /\ \A j \in 1..(i - 1) : d.layouts[j].name # name) - 1
  ELSE -1

\* project.removeLayout(name): the layout leaves the list; nothing else of
\* the project is touched.
RemoveLayout(d, name) ==
  LET k == LayoutPosition(d, name) + 1 IN
  [d EXCEPT !.layouts =
     [i \in 1..(Len(@) - 1) |-> IF i < k THEN @[i] ELSE @[i + 1]]]

\* ProjectSession.renameLayout after its two checks: layout.setName(newName),
\* then the first-layout reference follows when it named this layout.
\* (faulty variant: the first-layout reference is left behind)
RenameLayout_keepFirst(d, currentName, newName) ==
  LET k == LayoutPosition(d, currentName) + 1 IN
  [d EXCEPT !.layouts[k].name = newName]
RenameLayout(d, currentName, newName) ==
  LET k == LayoutPosition(d, currentName) + 1 IN
  [d EXCEPT !.layouts[k].name = newName,
            !.firstLayout = IF @ = currentName THEN newName ELSE @]

\* project.moveLayout(oldIndex, newIndex): nothing when an index is out of
\* range, otherwise the layout is taken out and put back at newIndex.
\* (faulty variant: the two layouts change places)
MoveLayout_swap(d, oldIndex, newIndex) ==
  LET n == Len(d.layouts) IN
  IF oldIndex < 0 \/ oldIndex >= n \/ newIndex < 0 \/ newIndex >= n
  THEN d
  ELSE [d EXCEPT !.layouts =
          [i \in 1..n |->
             IF i = newIndex + 1 THEN d.layouts[oldIndex + 1]
             ELSE IF i = oldIndex + 1 THEN d.layouts[newIndex + 1]
             ELSE d.layouts[i]]]
MoveLayout(d, oldIndex, newIndex) ==
  LET n == Len(d.layouts) IN
  IF oldIndex < 0 \/ oldIndex >= n \/ newIndex < 0 \/ newIndex >= n
  THEN d
  ELSE LET moved == d.layouts[oldIndex + 1]
           rest == [i \in 1..(n - 1) |->
                      IF i <= oldIndex THEN d.layouts[i] ELSE d.layouts[i + 1]]
       IN [d EXCEPT !.layouts =
             [i \in 1..n |->
                IF i <= newIndex THEN rest[i]
                ELSE IF i = newIndex + 1 THEN moved ELSE rest[i - 1]]]

\* A synchronous tool call on a session: the Document becomes doc and the
\* session is marked dirty, at the clock's reading.
Mutated(op, sessionId, ref, doc) ==
  \E t \in Clock :
    /\ projects' = [projects EXCEPT ![sess[ref].project].doc = doc]
    /\ sess' = [sess EXCEPT ![ref] = MarkDirty(@, t)]
    /\ last' = Result(op, 0, sessionId, ref, "ok")

\* The same, for a tool whose answer carries a list or a name: out.
Answered(op, sessionId, ref, doc, out) ==
  \E t \in Clock :
    /\ projects' = [projects EXCEPT ![sess[ref].project].doc = doc]
    /\ sess' = [sess EXCEPT ![ref] = MarkDirty(@, t)]
    /\ last' = [Result(op, 0, sessionId, ref, "ok") EXCEPT !.out = out]

\* A synchronous tool call that threw before changing anything.
Threw(op, sessionId, ref, error) ==
  /\ last' = Result(op, 0, sessionId, ref, error)
  /\ UNCHANGED <<sess, projects>>

\* gdevelop_scene_delete: ProjectSession.deleteLayout
SceneDelete(sessionId, sceneName) ==
  /\ LET ref == MapGet(sessions, sessionId) IN
     IF ref = 0 THEN Threw("sceneDelete", sessionId, 0, "SessionNotFound")
     ELSE LET d == projects[sess[ref].project].doc IN
          IF ~HasLayout(d, sceneName)
          THEN Threw("sceneDelete", sessionId, ref, "NotFound")
          ELSE Mutated("sceneDelete", sessionId, ref, RemoveLayout(d, sceneName))
  /\ UNCHANGED <<sessions, disk, backups, calls, uuidCount, core>>

\* gdevelop_scene_rename: ProjectSession.renameLayout
SceneRename(sessionId, currentName, newName) ==
  /\ LET ref == MapGet(sessions, sessionId) IN
     IF ref = 0 THEN Threw("sceneRename", sessionId, 0, "SessionNotFound")
     ELSE LET d == projects[sess[ref].project].doc IN
          IF ~HasLayout(d, currentName)
          THEN Threw("sceneRename", sessionId, ref, "NotFound")
          ELSE IF HasLayout(d, newName)
          THEN Threw("sceneRename", sessionId, ref, "DuplicateName")
          ELSE Mutated("sceneRename", sessionId, ref,
                       RenameLayout(d, currentName, newName))
  /\ UNCHANGED <<sessions, disk, backups, calls, uuidCount, core>>

\* gdevelop_scene_duplicate: both checks, then createLayout(newName) at the
\* end of the list; only the background colour is copied.
SceneDuplicate(sessionId, sourceName, newName) ==
  /\ LET ref == MapGet(sessions, sessionId) IN
     IF ref = 0 THEN Threw("sceneDuplicate", sessionId, 0, "SessionNotFound")
     ELSE LET d == projects[sess[ref].project].doc IN
          IF ~HasLayout(d, sourceName)
          THEN Threw("sceneDuplicate", sessionId, ref, "NotFound")
          ELSE IF HasLayout(d, newName)
          THEN Threw("sceneDuplicate", sessionId, ref, "DuplicateName")
          ELSE Mutated("sceneDuplicate", sessionId, ref,
                       InsertNewLayout(d, newName, Len(d.layouts)))
  /\ UNCHANGED <<sessions, disk, backups, calls, uuidCount, core>>

\* gdevelop_scene_reorder: ProjectSession.moveLayout; the answer carries
\* oldPosition and newPosition.
SceneReorder(sessionId, sceneName, newPosition) ==
  /\ LET ref == MapGet(sessions, sessionId) IN
     IF ref = 0 THEN Threw("sceneReorder", sessionId, 0, "SessionNotFound")
     ELSE LET d == projects[sess[ref].project].doc
              oldPosition == LayoutPosition(d, sceneName)
          IN
          IF oldPosition = -1
          THEN Threw("sceneReorder", sessionId, ref, "NotFound")
          ELSE Answered("sceneReorder", sessionId, ref,
                        MoveLayout(d, oldPosition, newPosition),
                        <<oldPosition, newPosition>>)
  /\ UNCHANGED <<sessions, disk, backups, calls, uuidCount, core>>

\* --------------------------------------------------- project settings
\* The values gdevelop_project_settings is given; a call passes a subset of
\* the fields (the others are undefined) and, with firstLayout, a scene name.
SettingsValues ==
  [name |-> "Renamed", version |-> "2.0.0", description |-> "A game",
   author |-> "Ann", packageName |-> "org.game",
   windowWidth |-> 1024, windowHeight |-> 768, maxFPS |-> 30, minFPS |-> 10]
SettingsInputs ==
  {{}, {"firstLayout"}, DOMAIN SettingsValues,
   DOMAIN SettingsValues \cup {"firstLayout"}}

\* The setters gdevelop_project_settings calls before it looks at
\* settings.firstLayout, each on the project itself.
ApplySettings(d, given) ==
  [d EXCEPT
     !.name = IF "name" \in given THEN SettingsValues.name ELSE @,
     !.version = IF "version" \in given THEN SettingsValues.version ELSE @,
     !.description =
        IF "description" \in given THEN SettingsValues.description ELSE @,
     !.author = IF "author" \in given THEN SettingsValues.author ELSE @,
     !.packageName =
        IF "packageName" \in given THEN SettingsValues.packageName ELSE @,
     !.windowWidth =
        IF "windowWidth" \in given THEN SettingsValues.windowWidth ELSE @,
     !.windowHeight =
        IF "windowHeight" \in given THEN SettingsValues.windowHeight ELSE @,
     !.maxFPS = IF "maxFPS" \in given THEN SettingsValues.maxFPS ELSE @,
     !.minFPS = IF "minFPS" \in given THEN SettingsValues.minFPS ELSE @]

\* gdevelop_project_settings: the setters run in order, the firstLayout check
\* comes last, and markDirty is called at the end when anything was updated.
ProjectSettings(sessionId, given, firstLayout) ==
  /\ LET ref == MapGet(sessions, sessionId) IN
     IF ref = 0 THEN Threw("projectSettings", sessionId, 0, "SessionNotFound")
     ELSE LET d == projects[sess[ref].project].doc
              applied == ApplySettings(d, given)
          IN
          IF "firstLayout" \in given /\ ~HasLayout(d, firstLayout)
          THEN /\ projects' = [projects EXCEPT
                                 ![sess[ref].project].doc = applied]
               /\ last' = Result("projectSettings", 0, sessionId, ref, "NotFound")
               /\ UNCHANGED sess
          ELSE IF given = {}
          THEN /\ last' = Result("projectSettings", 0, sessionId, ref, "ok")
               /\ UNCHANGED <<sess, projects>>
          ELSE Mutated("projectSettings", sessionId, ref,
                 IF "firstLayout" \in given
                 THEN [applied EXCEPT !.firstLayout = firstLayout]
                 ELSE applied)
  /\ UNCHANGED <<sessions, disk, backups, calls, uuidCount, core>>

\* ------------------------------------------- objects, variables, instances
\* Number of initial instances a scene may hold.
MaxInstances == 2
ObjectNames == {"O", "O2"}
ObjectTypes == {"Sprite"}
VariableNames == {"score"}
\* sceneName when the caller omits it: the global container is meant.
NoScene == ""

\* ObjectsContainer.hasObjectNamed, on a list of objects
HasObjectNamed(objects, name) ==
  \E i \in 1..Len(objects) : objects[i].name = name

\* ProjectSession.hasGlobalObject
\* (faulty variant: the check never finds the object)
HasGlobalObject_never(d, name) == FALSE
HasGlobalObject(d, name) == HasObjectNamed(d.objects, name)

\* ProjectSession.hasGlobalVariable
HasGlobalVariable(d, name) ==
  \E i \in 1..Len(d.variables) : d.variables[i] = name

\* createObject + insertObject(object, getObjectsCount()): appended.
InsertObject(objects, name, type) ==
  Append(objects, [name |-> name, type |-> type, variables |-> <<>>])

\* removeObject(name)
RemoveObject(objects, name) ==
  SelectSeq(objects, LAMBDA o : o.name # name)

\* object.setName(newName) on the object called currentName
SetObjectName(objects, currentName, newName) ==
  [i \in 1..Len(objects) |->
     IF objects[i].name = currentName
     THEN [objects[i] EXCEPT !.name = newName] ELSE objects[i]]

\* InitialInstancesContainer.renameInstancesOfObject(oldName, newName)
RenameInstancesOfObject(instances, oldName, newName) ==
  [i \in 1..Len(instances) |->
     IF instances[i].objectName = oldName
     THEN [instances[i] EXCEPT !.objectName = newName] ELSE instances[i]]

\* InitialInstancesContainer.removeInitialInstancesOfObject(objectName)
\* (faulty variant: the container is emptied)
RemoveInitialInstancesOfObject_all(instances, objectName) == <<>>
RemoveInitialInstancesOfObject(instances, objectName) ==
  SelectSeq(instances, LAMBDA n : n.objectName # objectName)

\* gdevelop_object_rename: the loop over project.getLayoutAt(i) for every i.
\* (faulty variant: only the first layout is visited)
RenameInAllLayouts_firstOnly(layouts, currentName, newName) ==
  [i \in 1..Len(layouts) |->
     IF i = 1
     THEN [layouts[i] EXCEPT
             !.instances = RenameInstancesOfObject(@, currentName, newName)]
     ELSE layouts[i]]
RenameInAllLayouts(layouts, currentName, newName) ==
  [i \in 1..Len(layouts) |->
     [layouts[i] EXCEPT
        !.instances = RenameInstancesOfObject(@, currentName, newName)]]

\* gdevelop_object_delete, global object: the loop that removes its instances.
RemoveInAllLayouts(layouts, objectName) ==
  [i \in 1..Len(layouts) |->
     [layouts[i] EXCEPT
        !.instances = RemoveInitialInstancesOfObject(@, objectName)]]

\* gdevelop_object_create: in the scene sceneName, or global when it is omitted
\* (ProjectSession.createGlobalObject).
ObjectCreate(sessionId, name, type, sceneName) ==
  /\ LET ref == MapGet(sessions, sessionId) IN
     IF ref = 0 THEN Threw("objectCreate", sessionId, 0, "SessionNotFound")
     ELSE LET d == projects[sess[ref].project].doc
              k == LayoutPosition(d, sceneName) + 1
          IN
          IF sceneName # NoScene
          THEN IF ~HasLayout(d, sceneName)
               THEN Threw("objectCreate", sessionId, ref, "NotFound")
               ELSE IF HasObjectNamed(d.layouts[k].objects, name)
               THEN Threw("objectCreate", sessionId, ref, "DuplicateName")
               ELSE Mutated("objectCreate", sessionId, ref,
                      [d EXCEPT !.layouts[k].objects =
                                   InsertObject(@, name, type)])
          ELSE IF HasGlobalObject(d, name)
               THEN Threw("objectCreate", sessionId, ref, "DuplicateName")
               ELSE Mutated("objectCreate", sessionId, ref,
                      [d EXCEPT !.objects = InsertObject(@, name, type)])
  /\ UNCHANGED <<sessions, disk, backups, calls, uuidCount, core>>

\* gdevelop_object_delete: from the scene sceneName, or global when it is
\* omitted (ProjectSession.deleteGlobalObject), with or without its instances.
\* The answer names the deleted object.
ObjectDelete(sessionId, objectName, sceneName, removeInstances) ==
  /\ LET ref == MapGet(sessions, sessionId) IN
     IF ref = 0 THEN Threw("objectDelete", sessionId, 0, "SessionNotFound")
     ELSE LET d == projects[sess[ref].project].doc
              k == LayoutPosition(d, sceneName) + 1
          IN
          IF sceneName # NoScene
          THEN IF ~HasLayout(d, sceneName)
               THEN Threw("objectDelete", sessionId, ref, "NotFound")
               ELSE IF ~HasObjectNamed(d.layouts[k].objects, objectName)
               THEN Threw("objectDelete", sessionId, ref, "NotFound")
               ELSE Answered("objectDelete", sessionId, ref,
                      [d EXCEPT
                         !.layouts[k].instances =
                            IF removeInstances
                            THEN RemoveInitialInstancesOfObject(@, objectName)
                            ELSE @,
                         !.layouts[k].objects = RemoveObject(@, objectName)],
                      <<objectName>>)
          ELSE IF ~HasGlobalObject(d, objectName)
               THEN Threw("objectDelete", sessionId, ref, "NotFound")
               ELSE Answered("objectDelete", sessionId, ref,
                      [d EXCEPT
                         !.objects = RemoveObject(@, objectName),
                         !.layouts = IF removeInstances
                                     THEN RemoveInAllLayouts(@, objectName)
                                     ELSE @],
                      <<objectName>>)
  /\ UNCHANGED <<sessions, disk, backups, calls, uuidCount, core>>

\* gdevelop_object_rename: the object is looked up in the scene's container or
\* in the global one; the instances are renamed in every layout.
ObjectRename(sessionId, currentName, newName, sceneName) ==
  /\ LET ref == MapGet(sessions, sessionId) IN
     IF ref = 0 THEN Threw("objectRename", sessionId, 0, "SessionNotFound")
     ELSE LET d == projects[sess[ref].project].doc
              k == LayoutPosition(d, sceneName) + 1
          IN
          IF sceneName # NoScene /\ ~HasLayout(d, sceneName)
          THEN Threw("objectRename", sessionId, ref, "NotFound")
          ELSE LET container == IF sceneName # NoScene
                                THEN d.layouts[k].objects ELSE d.objects
                   renamed == IF sceneName # NoScene
                              THEN [d EXCEPT !.layouts[k].objects =
                                      SetObjectName(@, currentName, newName)]
                              ELSE [d EXCEPT !.objects =
                                      SetObjectName(@, currentName, newName)]
               IN
               IF ~HasObjectNamed(container, currentName)
               THEN Threw("objectRename", sessionId, ref, "NotFound")
               ELSE IF HasObjectNamed(container, newName)
               THEN Threw("objectRename", sessionId, ref, "DuplicateName")
               ELSE Mutated("objectRename", sessionId, ref,
                      [renamed EXCEPT !.layouts =
                         RenameInAllLayouts(@, currentName, newName)])
  /\ UNCHANGED <<sessions, disk, backups, calls, uuidCount, core>>

\* gdevelop_instance_create and gdevelop_instance_batch, "Verify object
\* exists": in the container of layout k or in the global one.
\* (faulty variant: every name passes)
ObjectExists_always(d, k, objectName) == TRUE
ObjectExists(d, k, objectName) ==
  \/ HasObjectNamed(d.layouts[k].objects, objectName)
  \/ HasGlobalObject(d, objectName)

\* insertNewInitialInstance, then setObjectName and setLayer on the instance.
InsertNewInitialInstance(instances, objectName, layer) ==
  Append(instances, [objectName |-> objectName, layer |-> layer])

\* gdevelop_instance_create: the object must exist in the scene or globally;
\* the layer is not looked up.
InstanceCreate(sessionId, sceneName, objectName, layer) ==
  /\ LET ref == MapGet(sessions, sessionId) IN
     IF ref = 0 THEN Threw("instanceCreate", sessionId, 0, "SessionNotFound")
     ELSE LET d == projects[sess[ref].project].doc
              k == LayoutPosition(d, sceneName) + 1
          IN
          IF ~HasLayout(d, sceneName)
          THEN Threw("instanceCreate", sessionId, ref, "NotFound")
          ELSE IF ~ObjectExists(d, k, objectName)
          THEN Threw("instanceCreate", sessionId, ref, "ObjectNotFound")
          ELSE IF Len(d.layouts[k].instances) >= MaxInstances
          THEN /\ FALSE
               /\ UNCHANGED <<sess, projects, last>>
          ELSE Mutated("instanceCreate", sessionId, ref,
                 [d EXCEPT !.layouts[k].instances =
                    InsertNewInitialInstance(@, objectName, layer)])
  /\ UNCHANGED <<sessions, disk, backups, calls, uuidCount, core>>

\* Lists of object names a caller hands to gdevelop_instance_batch.
BatchInputs ==
  {<<>>} \cup {<<n>> : n \in ObjectNames}
         \cup {<<n, m>> : n \in ObjectNames, m \in ObjectNames}

\* results.push(entry)
\* (faulty variant: the entry is put in front of the list)
PushResult_front(results, entry) == <<entry>> \o results
PushResult(results, entry) == Append(results, entry)

\* gdevelop_instance_batch, the loop over the items from item i on: an item
\* whose object is unknown gets a failure entry and the loop goes on, every
\* other item gets an instance and a success entry.
RECURSIVE BatchItems(_, _, _, _, _, _)
BatchItems(d, k, items, i, instances, results) ==
  IF i > Len(items) THEN [instances |-> instances, results |-> results]
  ELSE IF ~ObjectExists(d, k, items[i])
  THEN BatchItems(d, k, items, i + 1, instances,
         PushResult(results, [success |-> FALSE, objectName |-> items[i]]))
  ELSE BatchItems(d, k, items, i + 1,
         InsertNewInitialInstance(instances, items[i], ""),
         PushResult(results, [success |-> TRUE, objectName |-> items[i]]))

\* gdevelop_instance_batch: the session is marked dirty whatever the items
\* did; the answer is the result list.
InstanceBatch(sessionId, sceneName, items) ==
  /\ LET ref == MapGet(sessions, sessionId) IN
     IF ref = 0 THEN Threw("instanceBatch", sessionId, 0, "SessionNotFound")
     ELSE LET d == projects[sess[ref].project].doc
              k == LayoutPosition(d, sceneName) + 1
          IN
          IF ~HasLayout(d, sceneName)
          THEN Threw("instanceBatch", sessionId, ref, "NotFound")
          ELSE LET done == BatchItems(d, k, items, 1,
                                      d.layouts[k].instances, <<>>)
               IN
               /\ Len(done.instances) <= MaxInstances
               /\ Answered("instanceBatch", sessionId, ref,
                     [d EXCEPT !.layouts[k].instances = done.instances],
                     done.results)
  /\ UNCHANGED <<sessions, disk, backups, calls, uuidCount, core>>

\* ProjectSession.createGlobalVariable
CreateGlobalVariable(sessionId, name) ==
  /\ LET ref == MapGet(sessions, sessionId) IN
     IF ref = 0 THEN Threw("createGlobalVariable", sessionId, 0, "SessionNotFound")
     ELSE LET d == projects[sess[ref].project].doc IN
          IF HasGlobalVariable(d, name)
          THEN Threw("createGlobalVariable", sessionId, ref, "DuplicateName")
          ELSE Mutated("createGlobalVariable", sessionId, ref,
                 [d EXCEPT !.variables = Append(@, name)])
  /\ UNCHANGED <<sessions, disk, backups, calls, uuidCount, core>>

\* ProjectSession.deleteGlobalVariable
DeleteGlobalVariable(sessionId, name) ==
  /\ LET ref == MapGet(sessions, sessionId) IN
     IF ref = 0 THEN Threw("deleteGlobalVariable", sessionId, 0, "SessionNotFound")
     ELSE LET d == projects[sess[ref].project].doc IN
          IF ~HasGlobalVariable(d, name)
          THEN Threw("deleteGlobalVariable", sessionId, ref, "NotFound")
          ELSE Mutated("deleteGlobalVariable", sessionId, ref,
                 [d EXCEPT !.variables = SelectSeq(@, LAMBDA v : v # name)])
  /\ UNCHANGED <<sessions, disk, backups, calls, uuidCount, core>>

\* ProjectSession.getGlobalVariable: a lookup by name, which changes nothing.
GetGlobalVariable(sessionId, name) ==
  /\ LET ref == MapGet(sessions, sessionId) IN
     IF ref = 0 THEN Threw("getGlobalVariable", sessionId, 0, "SessionNotFound")
     ELSE IF ~HasGlobalVariable(projects[sess[ref].project].doc, name)
     THEN Threw("getGlobalVariable", sessionId, ref, "NotFound")
     ELSE Threw("getGlobalVariable", sessionId, ref, "ok")
  /\ UNCHANGED <<sessions, disk, backups, calls, uuidCount, core>>

\* Variable names and scopes given to the variable tools.
ScopedVariableNames == {"score", "lives"}
Scopes == {"global", "scene", "object"}

\* VariablesContainer.has(name)
\* (faulty variant: the name is never found)
VariablesHas_never(variables, name) == FALSE
VariablesHas(variables, name) ==
  \E i \in 1..Len(variables) : variables[i] = name

\* Index of the object objectName in a list of objects, 0 when there is none.
ObjectPosition(objects, objectName) ==
  IF HasObjectNamed(objects, objectName)
  THEN CHOOSE j \in 1..Len(objects) : objects[j].name = objectName
  ELSE 0

\* The variable tools' choice of container: the Document's, the one of
\* layout k, or the one of object j of layout k.
ContainerOf(d, scope, k, j) ==
  IF scope = "global" THEN d.variables
  ELSE IF scope = "scene" THEN d.layouts[k].variables
  ELSE d.layouts[k].objects[j].variables

\* The Document with that container holding variables.
WithContainer(d, scope, k, j, variables) ==
  IF scope = "global" THEN [d EXCEPT !.variables = variables]
  ELSE IF scope = "scene" THEN [d EXCEPT !.layouts[k].variables = variables]
  ELSE [d EXCEPT !.layouts[k].objects[j].variables = variables]

\* gdevelop_variable_create and gdevelop_variable_delete, up to the
\* container: the error thrown on the way, "" when the container is reached.
\* layout.getObject of a name the scene does not hold is left undefined by
\* the library; the tools are not called that way here.
ContainerError(d, scope, sceneName, objectName) ==
  IF scope = "global" THEN ""
  ELSE IF sceneName = NoScene THEN "MissingArgument"
  ELSE IF scope = "object" /\ objectName = "" THEN "MissingArgument"
  ELSE IF ~HasLayout(d, sceneName) THEN "NotFound"
  ELSE ""

\* gdevelop_variable_create
VariableCreate(sessionId, scope, sceneName, objectName, name) ==
  /\ LET ref == MapGet(sessions, sessionId) IN
     IF ref = 0 THEN Threw("variableCreate", sessionId, 0, "SessionNotFound")
     ELSE LET d == projects[sess[ref].project].doc
              k == LayoutPosition(d, sceneName) + 1
              j == IF k = 0 THEN 0
                   ELSE ObjectPosition(d.layouts[k].objects, objectName)
              error == ContainerError(d, scope, sceneName, objectName)
          IN
          IF error # "" THEN Threw("variableCreate", sessionId, ref, error)
          ELSE /\ scope = "object" => j # 0
               /\ IF VariablesHas(ContainerOf(d, scope, k, j), name)
                  THEN Threw("variableCreate", sessionId, ref, "DuplicateName")
                  ELSE Mutated("variableCreate", sessionId, ref,
                         WithContainer(d, scope, k, j,
                           Append(ContainerOf(d, scope, k, j), name)))
  /\ UNCHANGED <<sessions, disk, backups, calls, uuidCount, core>>

\* gdevelop_variable_delete
VariableDelete(sessionId, scope, sceneName, objectName, name) ==
  /\ LET ref == MapGet(sessions, sessionId) IN
     IF ref = 0 THEN Threw("variableDelete", sessionId, 0, "SessionNotFound")
     ELSE LET d == projects[sess[ref].project].doc
              k == LayoutPosition(d, sceneName) + 1
              j == IF k = 0 THEN 0
                   ELSE ObjectPosition(d.layouts[k].objects, objectName)
              error == ContainerError(d, scope, sceneName, objectName)
          IN
          IF error # "" THEN Threw("variableDelete", sessionId, ref, error)
          ELSE /\ scope = "object" => j # 0
               /\ IF ~VariablesHas(ContainerOf(d, scope, k, j), name)
                  THEN Threw("variableDelete", sessionId, ref, "NotFound")
                  ELSE Mutated("variableDelete", sessionId, ref,
                         WithContainer(d, scope, k, j,
                           SelectSeq(ContainerOf(d, scope, k, j),
                                     LAMBDA v : v # name)))
  /\ UNCHANGED <<sessions, disk, backups, calls, uuidCount, core>>

\* ------------------------------------------------------------------ layers
\* Layer names callers use; "" is the unnamed base layer.
LayerNames == {"L", "L2"}
\* moveInstancesToLayer of gdevelop_layer_delete: {} when the caller omits
\* it, otherwise the set of the one name given.
MoveTargets == {{}} \cup {{n} : n \in LayerNames \cup {""}}

\* Layout.hasLayerNamed
HasLayerNamed(layers, name) == \E i \in 1..Len(layers) : layers[i] = name

\* InitialInstancesContainer.moveInstancesToLayer(fromLayer, toLayer)
MoveInstancesToLayer(instances, fromLayer, toLayer) ==
  [i \in 1..Len(instances) |->
     IF instances[i].layer = fromLayer
     THEN [instances[i] EXCEPT !.layer = toLayer] ELSE instances[i]]

\* if (moveInstancesToLayer): an omitted argument and the empty string both
\* count as false.
MoveAsked(target) == target # {} /\ target # {""}

\* gdevelop_layer_create, position omitted
LayerCreate(sessionId, sceneName, name) ==
  /\ LET ref == MapGet(sessions, sessionId) IN
     IF ref = 0 THEN Threw("layerCreate", sessionId, 0, "SessionNotFound")
     ELSE LET d == projects[sess[ref].project].doc
              k == LayoutPosition(d, sceneName) + 1
          IN
          IF ~HasLayout(d, sceneName)
          THEN Threw("layerCreate", sessionId, ref, "NotFound")
          ELSE IF HasLayerNamed(d.layouts[k].layers, name)
          THEN Threw("layerCreate", sessionId, ref, "DuplicateName")
          ELSE Mutated("layerCreate", sessionId, ref,
                 [d EXCEPT !.layouts[k].layers = Append(@, name)])
  /\ UNCHANGED <<sessions, disk, backups, calls, uuidCount, core>>

\* gdevelop_layer_delete: the instances are moved only when a move was asked
\* for; the answer is the layer name and the target given.
LayerDelete(sessionId, sceneName, layerName, target) ==
  /\ LET ref == MapGet(sessions, sessionId) IN
     IF ref = 0 THEN Threw("layerDelete", sessionId, 0, "SessionNotFound")
     ELSE LET d == projects[sess[ref].project].doc
              k == LayoutPosition(d, sceneName) + 1
              to == CHOOSE n \in target : TRUE
          IN
          IF ~HasLayout(d, sceneName)
          THEN Threw("layerDelete", sessionId, ref, "NotFound")
          ELSE IF ~HasLayerNamed(d.layouts[k].layers, layerName)
          THEN Threw("layerDelete", sessionId, ref, "NotFound")
          ELSE IF MoveAsked(target) /\ ~HasLayerNamed(d.layouts[k].layers, to)
          THEN Threw("layerDelete", sessionId, ref, "TargetNotFound")
          ELSE Answered("layerDelete", sessionId, ref,
                 [d EXCEPT
                    !.layouts[k].instances =
                       IF MoveAsked(target)
                       THEN MoveInstancesToLayer(@, layerName, to) ELSE @,
                    !.layouts[k].layers =
                      SelectSeq(@, LAMBDA l : l # layerName),
                    !.layouts[k].hidden = @ \ {layerName}],
                 <<layerName, target>>)
  /\ UNCHANGED <<sessions, disk, backups, calls, uuidCount, core>>

\* gdevelop_layer_update with the visible property given or not, and no
\* other property: the answer lists the properties that were set, and the
\* session is marked dirty also when the list is empty.  The hidden layers
\* change by layer.setVisibility(visible) when properties.visible is given.
LayerUpdate(sessionId, sceneName, layerName, visible) ==
  /\ LET ref == MapGet(sessions, sessionId) IN
     IF ref = 0 THEN Threw("layerUpdate", sessionId, 0, "SessionNotFound")
     ELSE LET d == projects[sess[ref].project].doc
              k == LayoutPosition(d, sceneName) + 1
          IN
          IF ~HasLayout(d, sceneName)
          THEN Threw("layerUpdate", sessionId, ref, "NotFound")
          ELSE IF ~HasLayerNamed(d.layouts[k].layers, layerName)
          THEN Threw("layerUpdate", sessionId, ref, "NotFound")
          ELSE Answered("layerUpdate", sessionId, ref,
                 [d EXCEPT !.layouts[k].hidden =
                             IF visible = {} THEN @
                             ELSE IF TRUE \in visible THEN @ \ {layerName}
                             ELSE @ \cup {layerName}],
                 IF visible = {} THEN <<>> ELSE <<"visible">>)
  /\ UNCHANGED <<sessions, disk, backups, calls, uuidCount, core>>

\* --------------------------------------------------------------- resources
\* resourcesManager.hasResource(name)
HasResource(d, name) == name \in d.resources

\* gdevelop_resource_add: after the check the handler creates no resource and
\* calls no addResource (the call is commented out); it marks the session
\* dirty and answers success with the name.
ResourceAdd(sessionId, name) ==
  /\ LET ref == MapGet(sessions, sessionId) IN
     IF ref = 0 THEN Threw("resourceAdd", sessionId, 0, "SessionNotFound")
     ELSE LET d == projects[sess[ref].project].doc IN
          IF HasResource(d, name)
          THEN Threw("resourceAdd", sessionId, ref, "AlreadyExists")
          ELSE Answered("resourceAdd", sessionId, ref, d, <<name>>)
  /\ UNCHANGED <<sessions, disk, backups, calls, uuidCount, core>>

\* gdevelop_resource_remove: resourcesManager.removeResource(name) past the
\* check.
ResourceRemove(sessionId, resourceName) ==
  /\ LET ref == MapGet(sessions, sessionId) IN
     IF ref = 0 THEN Threw("resourceRemove", sessionId, 0, "SessionNotFound")
     ELSE LET d == projects[sess[ref].project].doc IN
          IF ~HasResource(d, resourceName)
          THEN Threw("resourceRemove", sessionId, ref, "NotFound")
          ELSE Answered("resourceRemove", sessionId, ref,
                        [d EXCEPT !.resources = @ \ {resourceName}],
                        <<resourceName>>)
  /\ UNCHANGED <<sessions, disk, backups, calls, uuidCount, core>>

\* ------------------------------------------------------------- event tree
\* Events a scene's root list may hold, and instructions an instruction list
\* may hold, before the tools are kept from adding more.
MaxEvents == 2
MaxInstructions == 2

\* depth of gdevelop_event_list
Depths == {0, 1, 2}
\* position and eventIndex arguments: {} when omitted, {n} when given.
\* 3 is past the end of every list the tools may still add to.
EventPositions == {{}, {0}, {1}, {3}}
EventIndexes == {-1, 0, 1, 2}

\* Condition and action specifications callers give.
KeyPressed == [type |-> "KeyPressed", parameters |-> <<"", "Space">>,
               inverted |-> FALSE]
TimerElapsed == [type |-> "Timer", parameters |-> <<"1", "t">>,
                 inverted |-> TRUE]
MoveObject == [type |-> "Move", parameters |-> <<"O", "10">>]
HideObject == [type |-> "Hide", parameters |-> <<"O">>]
ConditionLists == {<<>>, <<KeyPressed, TimerElapsed>>}
ActionLists == {<<>>, <<MoveObject>>}

\* new gd.Instruction(), setType, setInverted (conditions only; an action
\* keeps the default), setParameter(i, parameters[i]) for every i.
MakeInstruction(given, isCondition) ==
  [type |-> given.type,
   parameters |-> [i \in 1..Len(given.parameters) |-> given.parameters[i]],
   inverted |-> IF isCondition THEN given.inverted ELSE FALSE]

\* The loops of gdevelop_event_create: every specification becomes an
\* instruction, inserted at size().
MakeInstructions(givens, isCondition) ==
  [i \in 1..Len(givens) |-> MakeInstruction(givens[i], isCondition)]

\* EventsList.insertNewEvent and InstructionsList.insert, for the place:
\* before the element at position, or last when position is not an index of
\* the list.
InsertAt(list, element, position) ==
  LET k == IF position >= 0 /\ position < Len(list) THEN position
           ELSE Len(list)
  IN
  [i \in 1..(Len(list) + 1) |->
     IF i <= k THEN list[i]
     ELSE IF i = k + 1 THEN element ELSE list[i - 1]]

\* EventsList.removeEventAt(index): the event goes with all it holds.
\* (faulty variant: the sub-events of the event take its place)
RemoveEventAt_promote(list, index) ==
  SubSeq(list, 1, index) \o list[index + 1].events
    \o SubSeq(list, index + 2, Len(list))
RemoveEventAt(list, index) ==
  SubSeq(list, 1, index) \o SubSeq(list, index + 2, Len(list))

\* project.createEvent(type): an enabled event with nothing in it.
NewEvent(type) ==
  [type |-> type, disabled |-> FALSE, folded |-> FALSE,
   conditions |-> <<>>, actions |-> <<>>, events |-> <<>>]

\* std.getConditions / std.getActions is defined: the event has instruction
\* lists.  Comment and Group events have none.
HasInstructions(type) == type \notin {"comment", "group"}

\* event.canHaveSubEvents()
CanHaveSubEvents(type) == type # "comment"

\* collectEvents: currentDepth < depth
\* (faulty variant: the sub-events of a node at the depth limit are visited)
Descends_orEqual(currentDepth, depth) == currentDepth <= depth
Descends(currentDepth, depth) == currentDepth < depth

\* collectEvents: eventInfo of the event at index i of a list reached by
\* prefix.  index is the path of positions, which the code joins with dots;
\* conditionCount and actionCount are {} when the field is not set.
EventInfo(event, prefix, i) ==
  [index |-> Append(prefix, i),
   type |-> event.type,
   disabled |-> event.disabled,
   conditionCount |-> IF HasInstructions(event.type)
                      THEN {Len(event.conditions)} ELSE {},
   actionCount |-> IF HasInstructions(event.type)
                   THEN {Len(event.actions)} ELSE {},
   subEventCount |-> IF CanHaveSubEvents(event.type) /\ event.events # <<>>
                     THEN Len(event.events) ELSE 0]

\* collectEvents(list, currentDepth, prefix), from the event at index i on:
\* the entries pushed, in the order they are pushed (an event's entry comes
\* after the entries of its sub-events).
RECURSIVE CollectEvents(_, _, _, _, _, _)
CollectEvents(list, i, currentDepth, depth, prefix, includeDisabled) ==
  IF i >= Len(list) THEN <<>>
  ELSE LET event == list[i + 1]
           rest == CollectEvents(list, i + 1, currentDepth, depth, prefix,
                                 includeDisabled)
       IN
       IF ~includeDisabled /\ event.disabled THEN rest
       ELSE (IF /\ CanHaveSubEvents(event.type)
                /\ event.events # <<>>
                /\ Descends(currentDepth, depth)
             THEN CollectEvents(event.events, 0, currentDepth + 1, depth,
                                Append(prefix, i), includeDisabled)
             ELSE <<>>)
            \o <<EventInfo(event, prefix, i)>> \o rest

\* gdevelop_event_list of a scene
EventList(sessionId, sceneName, depth, includeDisabled) ==
  /\ LET ref == MapGet(sessions, sessionId) IN
     IF ref = 0 THEN Threw("eventList", sessionId, 0, "SessionNotFound")
     ELSE LET d == projects[sess[ref].project].doc
              k == LayoutPosition(d, sceneName) + 1
          IN
          IF ~HasLayout(d, sceneName)
          THEN Threw("eventList", sessionId, ref, "NotFound")
          ELSE /\ last' = [Result("eventList", 0, sessionId, ref, "ok")
                              EXCEPT !.out =
                                CollectEvents(d.layouts[k].events, 0, 0,
                                              depth, <<>>, includeDisabled)]
               /\ UNCHANGED <<sess, projects>>
  /\ UNCHANGED <<sessions, disk, backups, calls, uuidCount, core>>

\* The Document's copy in which the event list of layout k is events.
WithEvents(d, k, events) == [d EXCEPT !.layouts[k].events = events]

\* gdevelop_event_create in a scene: the position is not checked, and the
\* answer repeats it as eventIndex.
EventCreate(sessionId, sceneName, eventType, position, conditions, actions) ==
  /\ LET ref == MapGet(sessions, sessionId) IN
     IF ref = 0 THEN Threw("eventCreate", sessionId, 0, "SessionNotFound")
     ELSE LET d == projects[sess[ref].project].doc
              k == LayoutPosition(d, sceneName) + 1
          IN
          IF ~HasLayout(d, sceneName)
          THEN Threw("eventCreate", sessionId, ref, "NotFound")
          ELSE LET list == d.layouts[k].events
                   pos == IF position = {} THEN Len(list)
                          ELSE CHOOSE n \in position : TRUE
                   event == IF eventType = "standard"
                            THEN [NewEvent(eventType) EXCEPT
                                    !.conditions =
                                       MakeInstructions(conditions, TRUE),
                                    !.actions =
                                       MakeInstructions(actions, FALSE)]
                            ELSE NewEvent(eventType)
               IN
               /\ Len(list) < MaxEvents
               /\ Answered("eventCreate", sessionId, ref,
                     WithEvents(d, k, InsertAt(list, event, pos)), <<pos>>)
  /\ UNCHANGED <<sessions, disk, backups, calls, uuidCount, core>>

\* gdevelop_event_delete in a scene
EventDelete(sessionId, sceneName, eventIndex) ==
  /\ LET ref == MapGet(sessions, sessionId) IN
     IF ref = 0 THEN Threw("eventDelete", sessionId, 0, "SessionNotFound")
     ELSE LET d == projects[sess[ref].project].doc
              k == LayoutPosition(d, sceneName) + 1
          IN
          IF ~HasLayout(d, sceneName)
          THEN Threw("eventDelete", sessionId, ref, "NotFound")
          ELSE IF eventIndex < 0 \/ eventIndex >= Len(d.layouts[k].events)
          THEN Threw("eventDelete", sessionId, ref, "IndexOutOfRange")
          ELSE Answered("eventDelete", sessionId, ref,
                 WithEvents(d, k, RemoveEventAt(d.layouts[k].events,
                                                eventIndex)),
                 <<eventIndex>>)
  /\ UNCHANGED <<sessions, disk, backups, calls, uuidCount, core>>

\* disabled and folded arguments of gdevelop_event_update: {} when omitted.
FlagInputs == {{}, {TRUE}, {FALSE}}

\* if (given !== undefined) event.setDisabled / setFolded (given)
\* (faulty variant: an omitted flag is cleared)
SetFlag_clears(current, given) ==
  IF given = {} THEN FALSE ELSE CHOOSE b \in given : TRUE
SetFlag(current, given) ==
  IF given = {} THEN current ELSE CHOOSE b \in given : TRUE

\* gdevelop_event_update in a scene: the session is marked dirty also when
\* neither flag is given.
EventUpdate(sessionId, sceneName, eventIndex, disabled, folded) ==
  /\ LET ref == MapGet(sessions, sessionId) IN
     IF ref = 0 THEN Threw("eventUpdate", sessionId, 0, "SessionNotFound")
     ELSE LET d == projects[sess[ref].project].doc
              k == LayoutPosition(d, sceneName) + 1
          IN
          IF ~HasLayout(d, sceneName)
          THEN Threw("eventUpdate", sessionId, ref, "NotFound")
          ELSE IF eventIndex < 0 \/ eventIndex >= Len(d.layouts[k].events)
          THEN Threw("eventUpdate", sessionId, ref, "IndexOutOfRange")
          ELSE Answered("eventUpdate", sessionId, ref,
                 WithEvents(d, k,
                   [d.layouts[k].events EXCEPT ![eventIndex + 1] =
                      [@ EXCEPT !.disabled = SetFlag(@, disabled),
                                !.folded = SetFlag(@, folded)]]),
                 <<eventIndex, disabled, folded>>)
  /\ UNCHANGED <<sessions, disk, backups, calls, uuidCount, core>>

\* What a call of gdevelop_condition_add or gdevelop_action_add can end in
\* when eventIndex is not an index of the list: the tools do not check it, and
\* eventsList.getEventAt is undefined there.  The read yields nothing usable
\* and the runtime throws, or it yields an object without instruction lists
\* and the tool throws, or it yields an object that takes the insert, which
\* then lands outside the Document while the call marks the session dirty
\* and answers success.

\* gdevelop_condition_add (isCondition) and gdevelop_action_add in a scene.
\* The position is not checked; the answer repeats it.
InstructionAdd(sessionId, sceneName, eventIndex, isCondition, given, position) ==
  /\ LET ref == MapGet(sessions, sessionId)
         op == IF isCondition THEN "conditionAdd" ELSE "actionAdd"
     IN
     IF ref = 0 THEN Threw(op, sessionId, 0, "SessionNotFound")
     ELSE LET d == projects[sess[ref].project].doc
              k == LayoutPosition(d, sceneName) + 1
          IN
          IF ~HasLayout(d, sceneName)
          THEN Threw(op, sessionId, ref, "NotFound")
          ELSE IF eventIndex < 0 \/ eventIndex >= Len(d.layouts[k].events)
          THEN \E outcome \in {"RuntimeError", "UnsupportedOperation", "ok"},
                  pos \in (IF position = {} THEN 0..MaxInstructions
                           ELSE position) :
                 IF outcome = "ok"
                 THEN Answered(op, sessionId, ref, d, <<pos>>)
                 ELSE Threw(op, sessionId, ref, outcome)
          ELSE LET event == d.layouts[k].events[eventIndex + 1]
                      list == IF isCondition THEN event.conditions
                              ELSE event.actions
                      pos == IF position = {} THEN Len(list)
                             ELSE CHOOSE n \in position : TRUE
                      added == InsertAt(list,
                                        MakeInstruction(given, isCondition),
                                        pos)
                  IN
                  IF ~HasInstructions(event.type)
                  THEN Threw(op, sessionId, ref, "UnsupportedOperation")
                  ELSE /\ Len(list) < MaxInstructions
                       /\ Answered(op, sessionId, ref,
                            WithEvents(d, k,
                              [d.layouts[k].events EXCEPT ![eventIndex + 1] =
                                 IF isCondition
                                 THEN [event EXCEPT !.conditions = added]
                                 ELSE [event EXCEPT !.actions = added]]),
                            <<pos>>)
  /\ UNCHANGED <<sessions, disk, backups, calls, uuidCount, core>>

\* The events of the scene "Main Scene" in the project file the event tools
\* are run on: a Group of three Standard events, the second of them disabled
\* and holding a sub-event of its own, and a Comment.
StoredEvents ==
  <<[NewEvent("group") EXCEPT !.events =
       <<[NewEvent("standard") EXCEPT
            !.conditions = <<MakeInstruction(KeyPressed, TRUE)>>,
            !.actions = <<MakeInstruction(MoveObject, FALSE)>>],
         [NewEvent("standard") EXCEPT
            !.disabled = TRUE,
            !.events = <<NewEvent("standard")>>],
         NewEvent("standard")>>],
    NewEvent("comment")>>

\* The project file at /w/p.json holds a scene with events, and the resource
\* "logo".
InitEvents ==
  /\ sessions = <<>>
  /\ sess = <<>>
  /\ projects = <<>>
  /\ disk = [p \in AbsPaths |->
               IF p = "/w/p.json"
               THEN Serialize([EmptyProject EXCEPT
                      !.name = "Game",
                      !.resources = {"logo"},
                      !.layouts = <<[EmptyLayout("Main Scene") EXCEPT
                                       !.events = StoredEvents]>>])
               ELSE NoFile]
  /\ backups = <<>>
  /\ calls = [c \in Calls |-> Idle]
  /\ uuidCount = 0
  /\ core = CoreReady
  /\ last = Result("init", 0, NoId, 0, "ok")

\* The registry's operations, with every interleaving of their continuations.
Next ==
  \/ \E c \in Calls, p \in InputPaths, id \in ExplicitIds \cup {NoId} :
       OpenProject(c, p, id)
  \/ \E c \in Calls : OpenLoaded(c)
  \/ \E c \in Calls : OpenLoadFailed(c)
  \/ \E p \in InputPaths, n \in ProjectNames, id \in ExplicitIds \cup {NoId} :
       CreateProject(p, n, id)
  \/ \E id \in QueryIds : GetSession(id)
  \/ ListSessions
  \/ \E c \in Calls, id \in QueryIds, save \in BOOLEAN :
       CloseSession(c, id, save)
  \/ \E c \in Calls : CloseSaveDone(c)
  \/ \E c \in Calls : CloseSaveFailed(c)
  \/ \E c \in Calls, save \in BOOLEAN : CloseAllSessions(c, save)
  \/ \E c \in Calls : CloseAllNext(c)
  \/ \E c \in Calls : CloseAllSaveDone(c)
  \/ \E c \in Calls : CloseAllSaveFailed(c)

Spec == Init /\ [][Next]_vars

\* One caller at a time working on one session: the tools that save, create
\* and change scenes, with the continuations of their awaits.  No code path
\* reads a timestamp back, so here every reading of the clock falls in the
\* same millisecond.
SameTick == LatestStamp' = LatestStamp

NextSave ==
  \/ /\ Len(sess) < SaveSessions
     /\ \E p \in InputPaths, id \in ExplicitIds : OpenProject(1, p, id)
  \/ OpenLoaded(1) /\ SameTick
  \/ OpenLoadFailed(1)
  \/ /\ Len(sess) < SaveSessions
     /\ \E p \in InputPaths, n \in ProjectNames, id \in ExplicitIds :
          CreateProject(p, n, id)
     /\ SameTick
  \/ \E id \in QueryIds : GetSession(id)
  \/ ListSessions
  \/ \E id \in QueryIds, save \in BOOLEAN : CloseSession(1, id, save)
  \/ CloseSaveDone(1)
  \/ CloseSaveFailed(1)
  \/ \E id \in QueryIds, sp \in {"", "/w/q.json"}, b \in BOOLEAN :
       ProjectSave(1, id, sp, b)
  \/ ProjectSaveBackedUp(1)
  \/ /\ Len(sess) < SaveSessions
     /\ \E p \in InputPaths, n \in ProjectNames, sc \in BOOLEAN :
          ProjectCreate(1, p, n, sc)
     /\ SameTick
  \/ ToolSaveDone(1)
  \/ ToolSaveFailed(1)
  \/ /\ \E id \in QueryIds, n \in LayoutNames, f \in BOOLEAN :
          SceneCreate(id, n, f)
     /\ SameTick

SpecSave == Init /\ [][NextSave]_vars

\* One session and the scene, settings and global-container operations on
\* its Document.
NextScene ==
  \/ \E n \in ProjectNames :
       /\ Len(sess) < SaveSessions
       /\ CreateProject("/w/q.json", n, "a")
  \/ \E id \in ExplicitIds, n \in SceneNames, f \in BOOLEAN :
       SceneCreate(id, n, f)
  \/ \E id \in ExplicitIds, n \in AllSceneNames : SceneDelete(id, n)
  \/ \E id \in ExplicitIds, n \in AllSceneNames, m \in AllSceneNames :
       SceneRename(id, n, m)
  \/ \E id \in ExplicitIds, n \in AllSceneNames, m \in SceneNames :
       SceneDuplicate(id, n, m)
  \/ \E id \in ExplicitIds, n \in AllSceneNames, pos \in Positions :
       SceneReorder(id, n, pos)
  \/ \E id \in ExplicitIds, given \in SettingsInputs, n \in SceneNames :
       ProjectSettings(id, given, n)
  \/ \E id \in ExplicitIds, ty \in ObjectTypes :
       ObjectCreate(id, "O", ty, NoScene)
  \/ \E id \in ExplicitIds, b \in BOOLEAN :
       ObjectDelete(id, "O", NoScene, b)
  \/ \E id \in ExplicitIds, n \in VariableNames : CreateGlobalVariable(id, n)
  \/ \E id \in ExplicitIds, n \in VariableNames : DeleteGlobalVariable(id, n)

SpecScene == Init /\ [][NextScene]_vars

\* One session with scenes, objects in the scenes and in the global
\* container, and instances of them.
NextObj ==
  \/ \E n \in ProjectNames :
       /\ Len(sess) < SaveSessions
       /\ CreateProject("/w/q.json", n, "a")
       /\ SameTick
  \/ \E id \in ExplicitIds, n \in SceneNames :
       SceneCreate(id, n, FALSE) /\ SameTick
  \/ \E id \in ExplicitIds, n \in ObjectNames, ty \in ObjectTypes,
        sc \in SceneNames \cup {NoScene} :
       ObjectCreate(id, n, ty, sc) /\ SameTick
  \/ \E id \in ExplicitIds, n \in ObjectNames, m \in ObjectNames,
        sc \in SceneNames \cup {NoScene} :
       ObjectRename(id, n, m, sc) /\ SameTick
  \/ \E id \in ExplicitIds, sc \in SceneNames, n \in ObjectNames :
       InstanceCreate(id, sc, n, "") /\ SameTick

SpecObj == Init /\ [][NextObj]_vars

\* One session with scenes, objects and instances: the instances are made
\* one by one or in batches, and objects are deleted under them.
NextInst ==
  \/ \E n \in ProjectNames :
       /\ Len(sess) < SaveSessions
       /\ CreateProject("/w/q.json", n, "a")
       /\ SameTick
  \/ \E id \in ExplicitIds, n \in SceneNames :
       SceneCreate(id, n, FALSE) /\ SameTick
  \/ \E id \in ExplicitIds, ty \in ObjectTypes,
        sc \in SceneNames \cup {NoScene} :
       ObjectCreate(id, "O", ty, sc) /\ SameTick
  \/ \E id \in ExplicitIds, ty \in ObjectTypes :
       ObjectCreate(id, "O2", ty, NoScene) /\ SameTick
  \/ \E id \in ExplicitIds, sc \in SceneNames, n \in ObjectNames :
       InstanceCreate(id, sc, n, "") /\ SameTick
  \/ \E id \in ExplicitIds, sc \in SceneNames, items \in BatchInputs :
       InstanceBatch(id, sc, items) /\ SameTick
  \/ \E id \in ExplicitIds, n \in ObjectNames,
        sc \in SceneNames \cup {NoScene}, b \in BOOLEAN :
       ObjectDelete(id, n, sc, b) /\ SameTick

SpecInst == Init /\ [][NextInst]_vars

\* One session, one scene with one object, and the variables of the three
\* scopes, through the tools and through ProjectSession's own operations.
NextVar ==
  \/ \E n \in ProjectNames :
       /\ Len(sess) < SaveSessions
       /\ CreateProject("/w/q.json", n, "a")
       /\ SameTick
  \/ \E id \in ExplicitIds : SceneCreate(id, "Main Scene", FALSE) /\ SameTick
  \/ \E id \in ExplicitIds, ty \in ObjectTypes :
       ObjectCreate(id, "O", ty, "Main Scene") /\ SameTick
  \/ \E id \in ExplicitIds, scope \in Scopes, sc \in {"Main Scene", NoScene},
        o \in {"O", ""}, n \in ScopedVariableNames :
       VariableCreate(id, scope, sc, o, n) /\ SameTick
  \/ \E id \in ExplicitIds, scope \in Scopes, sc \in {"Main Scene", NoScene},
        o \in {"O", ""}, n \in ScopedVariableNames :
       VariableDelete(id, scope, sc, o, n) /\ SameTick
  \/ \E id \in ExplicitIds, n \in ScopedVariableNames :
       CreateGlobalVariable(id, n) /\ SameTick
  \/ \E id \in ExplicitIds, n \in ScopedVariableNames :
       DeleteGlobalVariable(id, n) /\ SameTick
  \/ \E id \in ExplicitIds, n \in ScopedVariableNames :
       GetGlobalVariable(id, n)

SpecVar == Init /\ [][NextVar]_vars

\* One session, one scene, a global object, and the scene's layers with
\* instances placed on them.
NextLayer ==
  \/ \E n \in ProjectNames :
       /\ Len(sess) < SaveSessions
       /\ CreateProject("/w/q.json", n, "a")
       /\ SameTick
  \/ \E id \in ExplicitIds : SceneCreate(id, "Main Scene", FALSE) /\ SameTick
  \/ \E id \in ExplicitIds, ty \in ObjectTypes :
       ObjectCreate(id, "O", ty, NoScene) /\ SameTick
  \/ \E id \in ExplicitIds, l \in LayerNames \cup {""} :
       InstanceCreate(id, "Main Scene", "O", l) /\ SameTick
  \/ \E id \in ExplicitIds, l \in LayerNames :
       LayerCreate(id, "Main Scene", l) /\ SameTick
  \/ \E id \in ExplicitIds, l \in LayerNames \cup {""}, t \in MoveTargets :
       LayerDelete(id, "Main Scene", l, t) /\ SameTick

SpecLayer == Init /\ [][NextLayer]_vars

\* One session opened from the project file, and the event tools on the
\* events of its scene.
NextEvents ==
  \/ /\ Len(sess) < SaveSessions
     /\ OpenProject(1, "p.json", "a")
  \/ OpenLoaded(1) /\ SameTick
  \/ \E id \in ExplicitIds, depth \in Depths, b \in BOOLEAN :
       EventList(id, "Main Scene", depth, b)
  \/ \E id \in ExplicitIds, ty \in {"standard", "comment", "group"}, pos \in EventPositions,
        cs \in ConditionLists, as \in ActionLists :
       EventCreate(id, "Main Scene", ty, pos, cs, as) /\ SameTick
  \/ \E id \in ExplicitIds, i \in EventIndexes :
       EventDelete(id, "Main Scene", i) /\ SameTick
  \/ \E id \in ExplicitIds, i \in EventIndexes, pos \in EventPositions :
       InstructionAdd(id, "Main Scene", i, TRUE, TimerElapsed, pos)
         /\ SameTick
  \/ \E id \in ExplicitIds, i \in EventIndexes, pos \in EventPositions :
       InstructionAdd(id, "Main Scene", i, FALSE, HideObject, pos)
         /\ SameTick

SpecEvents == InitEvents /\ [][NextEvents]_vars

\* One session opened from the project file, and the tools that address an
\* event of its scene by index.
NextFlags ==
  \/ /\ Len(sess) < SaveSessions
     /\ OpenProject(1, "p.json", "a")
  \/ OpenLoaded(1) /\ SameTick
  \/ \E id \in ExplicitIds, i \in EventIndexes, dis \in FlagInputs,
        fo \in FlagInputs :
       EventUpdate(id, "Main Scene", i, dis, fo) /\ SameTick
  \/ \E id \in ExplicitIds, i \in EventIndexes :
       EventDelete(id, "Main Scene", i) /\ SameTick
  \/ \E id \in ExplicitIds, i \in EventIndexes :
       InstructionAdd(id, "Main Scene", i, TRUE, TimerElapsed, {})
         /\ SameTick
  \/ \E id \in ExplicitIds, i \in EventIndexes :
       InstructionAdd(id, "Main Scene", i, FALSE, HideObject, {})
         /\ SameTick

SpecFlags == InitEvents /\ [][NextFlags]_vars

\* One session opened from the project file, clean until a tool marks it,
\* the tools whose call may set nothing (an event update, a layer update, a
\* batch of instances of objects the scene has or has not) and the resource
\* tools.
NextTools ==
  \/ /\ Len(sess) < SaveSessions
     /\ OpenProject(1, "p.json", "a")
  \/ OpenLoaded(1) /\ SameTick
  \/ \E id \in ExplicitIds, ty \in ObjectTypes :
       ObjectCreate(id, "O", ty, "Main Scene") /\ SameTick
  \/ \E id \in ExplicitIds, i \in EventIndexes, dis \in FlagInputs,
        fo \in FlagInputs :
       EventUpdate(id, "Main Scene", i, dis, fo) /\ SameTick
  \/ \E id \in ExplicitIds, n \in LayerNames \cup {""}, v \in FlagInputs :
       LayerUpdate(id, "Main Scene", n, v) /\ SameTick
  \/ \E id \in ExplicitIds, items \in BatchInputs :
       InstanceBatch(id, "Main Scene", items) /\ SameTick
  \/ \E id \in ExplicitIds, n \in {"logo", "hero"} :
       ResourceAdd(id, n) /\ SameTick
  \/ \E id \in ExplicitIds, n \in {"logo", "hero"} :
       ResourceRemove(id, n) /\ SameTick

SpecTools == InitEvents /\ [][NextTools]_vars

\* A GDCoreManager that nobody has initialized yet, next to the project file.
InitCore ==
  /\ sessions = <<>>
  /\ sess = <<>>
  /\ projects = <<>>
  /\ disk = [p \in AbsPaths |->
               IF p = "/w/p.json"
               THEN Serialize([EmptyProject EXCEPT !.name = "Game"])
               ELSE NoFile]
  /\ backups = <<>>
  /\ calls = [c \in Calls |-> Idle]
  /\ uuidCount = 0
  /\ core = [gdtools |-> FALSE, initPromise |-> "null", pc |-> "idle",
             loads |-> 0]
  /\ last = Result("init", 0, NoId, 0, "ok")

\* Callers of initialize, one after the other or overlapping, the steps of
\* the initializer, and the calls that need the library: getGDTools at its
\* sites, openProject (loadProject) and createProject.
NextCore ==
  \/ \E c \in Calls : Initialize(c)
  \/ ImportDone
  \/ LoadGDDone
  \/ InitializeFailed
  \/ \E c \in Calls : InitializeSettled(c)
  \/ \E site \in {"getGDTools", "gd", "loadProject", "saveProject",
                  "getRuntimePath"} : GetGDTools(site)
  \/ IsInitialized
  \/ \E c \in Calls : OpenProject(c, "p.json", "a")
  \/ \E c \in Calls : OpenLoaded(c)
  \/ \E n \in ProjectNames : CreateProject("/w/q.json", n, "b")

SpecCore == InitCore /\ [][NextCore]_vars

\* Identifiers of two sessions that live side by side.
TwoIds == {"a", "b"}

\* Two sessions, opened from the same project file or created, each changed,
\* saved and closed while the other is live; a save may be under way while
\* the other session is worked on.
NextTwo ==
  \/ \E id \in TwoIds : OpenProject(1, "p.json", id)
  \/ OpenLoaded(1)
  \/ \E id \in TwoIds, n \in ProjectNames : CreateProject("p.json", n, id)
  \/ \E id \in TwoIds, n \in LayoutNames : SceneCreate(id, n, FALSE)
  \/ \E id \in TwoIds, n \in LayoutNames : SceneDelete(id, n)
  \/ \E id \in TwoIds : ProjectSave(1, id, NoPath, FALSE)
  \/ ToolSaveDone(1)
  \/ ToolSaveFailed(1)
  \/ \E id \in TwoIds, save \in BOOLEAN : CloseSession(1, id, save)
  \/ CloseSaveDone(1)
  \/ CloseSaveFailed(1)

SpecTwo == Init /\ [][NextTwo]_vars

\* ------------------------------------------------------------------ claims
\* C1: openProject and createProject called with an id that denotes a live
\* session fail with a session-conflict error and leave the registry, every
\* session (Document, path, dirty flag), the file system and the suspended
\* calls as they were.
C1_ConflictLeavesRegistryUnchanged ==
  [][\A c \in Calls, p \in InputPaths, n \in ProjectNames, id \in ExplicitIds :
       (id \in Registered /\ (OpenProject(c, p, id) \/ CreateProject(p, n, id)))
         => /\ last'.result = "SessionConflict"
            /\ UNCHANGED <<sessions, sess, projects, disk, calls>>]_vars

\* A conflict was reported for an id that is (still) registered.
C1_Witness ==
  /\ last.op \in {"openProject", "createProject"}
  /\ last.result = "SessionConflict"
  /\ last.id \in Registered

\* C2: a session that has been registered is never replaced in the registry
\* by another session object in one step, that is without having been closed
\* (of two overlapping openProject calls with one id at most one succeeds).
C2_RegisteredSessionNeverReplaced ==
  [][\A i \in 1..Len(sessions), j \in 1..Len(sessions') :
       sessions[i].id = sessions'[j].id => sessions[i].ref = sessions'[j].ref]_vars

\* C3: the dirty flag is false right after open and true right after create,
\* is true after every mutating call that succeeded, and goes from true to
\* false only in the continuation of a save that succeeded (so not by a
\* backup, a list, a get, a failed mutation or a failed save).
C3_DirtyLifecycle ==
  [][/\ (last'.op = "openProject" /\ last'.result = "ok")
          => ~sess'[last'.ref].dirty
     /\ (last'.op = "createProject" /\ last'.result = "ok")
          => sess'[last'.ref].dirty
     /\ (last'.op = "sceneCreate" /\ last'.result = "ok")
          => /\ sess'[last'.ref].dirty
             /\ projects'[sess[last'.ref].project].doc
                  # projects[sess[last'.ref].project].doc
     /\ \A r \in 1..Len(sess) :
          (sess[r].dirty /\ ~sess'[r].dirty)
            => /\ last'.ref = r
               /\ last'.op \in {"projectSave", "projectCreate", "closeSession"}
               /\ last'.result \in {"ok", "true"}
               /\ \E c \in Calls : calls[c].pc = "saving" /\ calls'[c] = Idle
                                   /\ disk'[Resolve(calls[c].path)] = calls[c].content]_vars

\* A session whose Document was changed has been saved and is clean.
C3_Witness ==
  /\ last.op = "projectSave"
  /\ last.result = "ok"
  /\ ~sess[last.ref].dirty
  /\ HasLayout(projects[sess[last.ref].project].doc, "Main Scene")

\* C4: a closeSession on a registered id always ends with the session's
\* Document released and the id absent from the registry, whether or not the
\* save it attempts succeeds.
C4_CloseAlwaysReleases ==
  [][\A c \in Calls :
       (calls[c].op = "closeSession" /\ calls'[c].op # "closeSession")
         => /\ projects'[sess[calls[c].ref].project].deleted > 0
            /\ calls[c].id \notin Registered']_vars

\* C5: when closeAllSessions finishes, also by the save of one session
\* failing, the registry is empty.
C5_CloseAllEmptiesRegistry ==
  [][\A c \in Calls :
       (calls[c].op = "closeAllSessions" /\ calls'[c] = Idle)
         => Len(sessions') = 0]_vars

\* C6: a closeSession call writes nothing itself, and it goes on to save (the
\* only step of a close that writes) if and only if save is true and the
\* session is dirty at the time of the call.
C6_CloseWritesIffSaveAndDirty ==
  [][/\ \A c \in Calls, id \in QueryIds, save \in BOOLEAN :
          CloseSession(c, id, save)
            => /\ disk' = disk
               /\ (calls'[c].pc = "saving") <=> (save /\ \E i \in 1..Len(sessions) :
                               /\ sessions[i].id = id
                               /\ sess[sessions[i].ref].dirty)
     /\ (last'.op = "closeSession" /\ disk' # disk)
          => \E c \in Calls : /\ calls[c].op = "closeSession"
                              /\ calls[c].pc = "saving"
                              /\ calls[c].save]_vars

\* A created, never saved session was closed while dirty and there is no file
\* at its path.
C6_Witness ==
  /\ last.op = "closeSession"
  /\ last.result = "true"
  /\ sess[last.ref].dirty
  /\ ~disk[Resolve(sess[last.ref].projectPath)].exists

\* C7: createProject builds an empty Document with the given name, registers
\* a new session for it that is dirty, and writes nothing.
C7_CreateRegistersDirtyUnsaved ==
  [][\A p \in InputPaths, n \in ProjectNames, id \in ExplicitIds \cup {NoId} :
       (CreateProject(p, n, id) /\ last'.result # "SessionConflict")
         => LET r == Len(sess')
                d == projects'[sess'[r].project].doc
            IN /\ r = Len(sess) + 1
               /\ sess'[r].dirty
               /\ id # NoId => sess'[r].id = id
               /\ sess'[r].id \notin Registered
               /\ \E i \in 1..Len(sessions') :
                    sessions'[i] = [id |-> sess'[r].id, ref |-> r]
               /\ d.name = n /\ d.layouts = <<>> /\ d.firstLayout = ""
               /\ projects'[sess'[r].project].deleted = 0
               /\ disk' = disk /\ backups' = backups]_vars

\* A created session is registered, dirty, and no file exists at its path.
C7_Witness ==
  /\ last.op = "createProject"
  /\ last.result = "ok"
  /\ last.id \in Registered
  /\ sess[last.ref].dirty
  /\ ~disk[sess[last.ref].projectPath].exists

\* C8 as stated: the project file changes only through gdevelop_project_save
\* or closeSession; no open, create or mutation of the session or of a tool
\* writes it.
C8_OnlyExplicitSaveWrites ==
  [][disk' # disk => last'.op \in {"projectSave", "closeSession"}]_vars

\* C8 amended: the project file changes only in the continuation of a
\* ProjectSession.save that succeeded, and save is called by
\* gdevelop_project_save, by closeSession and by gdevelop_project_create.
C8_OnlySaveWrites ==
  [][disk' # disk
       => /\ last'.op \in {"projectSave", "closeSession", "projectCreate"}
          /\ last'.result \in {"ok", "true"}
          /\ \E c \in Calls : /\ calls[c].pc = "saving"
                              /\ disk' = [disk EXCEPT ![Resolve(calls[c].path)] =
                                                        calls[c].content]]_vars

\* gdevelop_project_create has written the file of the project it created.
C8_Witness ==
  /\ last.op = "projectCreate"
  /\ last.result = "ok"
  /\ disk["/w/q.json"].exists

\* C9: getSession fails with session-not-found exactly when the id is not
\* registered and otherwise returns the registered session; right after
\* closeSession returned true the id is not registered; closeSession on an
\* unregistered id returns false and changes nothing.
C9_GetSessionFailsIffUnregistered ==
  [][/\ \A id \in QueryIds :
          GetSession(id)
            => /\ (last'.result = "SessionNotFound") <=> (id \notin Registered)
               /\ id \in Registered
                    => \E i \in 1..Len(sessions) :
                         sessions[i] = [id |-> id, ref |-> last'.ref]
     /\ (last'.op = "closeSession" /\ last'.result = "true")
          => last'.id \notin Registered'
     /\ \A c \in Calls, id \in QueryIds, save \in BOOLEAN :
          (CloseSession(c, id, save) /\ id \notin Registered)
            => /\ last'.result = "false"
               /\ UNCHANGED <<sessions, sess, projects, disk, backups, calls>>]_vars

\* getSession failed for an id that had been opened and then closed.
C9_Witness ==
  /\ last.op = "getSession"
  /\ last.result = "SessionNotFound"
  /\ \E r \in 1..Len(sess) : sess[r].id = last.id
  /\ last.id \notin Registered

\* C10: when a save fails, the dirty flag and the path of every session are
\* what they were: a failed save(newPath) neither clears dirty nor switches
\* the session to newPath.
C10_FailedSaveKeepsDirtyAndPath ==
  [][(last'.result = "IOFailure" /\ \E c \in Calls : calls[c].pc = "saving")
       => \A r \in 1..Len(sess) :
            /\ sess'[r].dirty = sess[r].dirty
            /\ sess'[r].projectPath = sess[r].projectPath]_vars

\* A save to a new path failed; the session is dirty, at its old path.
C10_Witness ==
  /\ last.op = "projectSave"
  /\ last.result = "IOFailure"
  /\ last.arg = "/w/q.json"
  /\ sess[last.ref].dirty
  /\ sess[last.ref].projectPath = "/w/p.json"

\* C11: a save(newPath) that succeeded leaves the session at newPath and
\* listSessions reports it, a save() that succeeded leaves the path as it
\* was, and a save() without argument and a createBackup both work on the
\* path the session has when they are called.
C11_SavePathFollowsSave ==
  [][/\ \A c \in Calls :
          (ToolSaveDone(c) /\ calls[c].op = "projectSave")
            => LET r == calls[c].ref IN
               /\ sess'[r].projectPath =
                    IF calls[c].savePath # NoPath THEN calls[c].savePath
                    ELSE sess[r].projectPath
               /\ \A i \in 1..Len(sessions') :
                    sessions'[i].ref = r
                      => SessionSummaries'[i].projectPath =
                           IF calls[c].savePath # NoPath
                           THEN calls[c].savePath ELSE sess[r].projectPath
     /\ \A c \in Calls, id \in QueryIds, b \in BOOLEAN :
          (ProjectSave(c, id, NoPath, b) /\ id \in Registered)
            => calls'[c].path = sess[MapGet(sessions, id)].projectPath
     /\ \A c \in Calls :
          (ProjectSaveBackedUp(c) /\ backups' # backups)
            => /\ backups'[Len(backups')].of =
                    Resolve(sess[calls[c].ref].projectPath)
               /\ calls[c].savePath = NoPath
                    => calls'[c].path = sess[calls[c].ref].projectPath]_vars

\* A session that was at /w/p.json when its backup was taken was moved to
\* /w/q.json by save(newPath) and has since saved without argument; the file
\* at /w/q.json holds its Document.
C11_Witness ==
  /\ last.op = "projectSave"
  /\ last.result = "ok"
  /\ last.arg = NoPath
  /\ sess[last.ref].projectPath = "/w/q.json"
  /\ disk["/w/q.json"] = Serialize(projects[sess[last.ref].project].doc)
  /\ Len(sess) = 1
  /\ \E i \in 1..Len(backups) : backups[i].of = "/w/p.json"
  /\ Len(projects[sess[last.ref].project].doc.layouts) > 0

\* C12: every save that succeeds leaves the dirty flag false, leaves the
\* Document as it was and leaves on disk what it serialized when it was
\* called; so a save of a clean session whose file already holds its
\* Document (a save right after a save, nothing in between) leaves the disk
\* exactly as the first save left it.
C12_SaveTwiceIsIdempotent ==
  [][\A c \in Calls :
       (ToolSaveDone(c) /\ calls[c].op = "projectSave")
         => LET r == calls[c].ref
                doc == projects[sess[r].project].doc
            IN
            /\ ~sess'[r].dirty
            /\ projects' = projects
            /\ disk'[Resolve(calls[c].path)] = calls[c].content
            /\ (/\ last.op = "projectSave"
                /\ last.result \in {"pending", "backedUp"}
                /\ ~sess[r].dirty
                /\ disk[Resolve(calls[c].path)] = Serialize(doc))
                 => disk' = disk]_vars

\* A save has succeeded on a session whose file, backed up by this very call,
\* already held the Document that an earlier save had written.
C12_Witness ==
  /\ last.op = "projectSave"
  /\ last.result = "ok"
  /\ ~sess[last.ref].dirty
  /\ Len(projects[sess[last.ref].project].doc.layouts) > 0
  /\ disk[Resolve(sess[last.ref].projectPath)]
       = Serialize(projects[sess[last.ref].project].doc)
  /\ \E i \in 1..Len(backups) :
       /\ backups[i].of = Resolve(sess[last.ref].projectPath)
       /\ backups[i].content = disk[backups[i].of]

\* C13: createBackup copies what is on disk at the session's path, not the
\* Document in memory, fails when there is no file at that path, and in both
\* cases leaves the Document, the dirty flag, the session's path and the
\* file itself as they were.
C13_BackupCopiesDiskOnly ==
  [][\A c \in Calls :
       ProjectSaveBackedUp(c)
         => LET path == Resolve(sess[calls[c].ref].projectPath) IN
            /\ UNCHANGED <<projects, sess, disk, sessions>>
            /\ disk[path].exists
                 => /\ backups' = Append(backups, [of |-> path,
                                                   content |-> disk[path]])
                    /\ last'.result = "backedUp"
            /\ ~disk[path].exists
                 => /\ backups' = backups
                    /\ last'.result = "backupFailed"]_vars

\* A backup was taken of a session with unsaved scenes: the backup holds the
\* file, which lacks them.
C13_Witness ==
  /\ last.op = "projectSave"
  /\ last.result = "backedUp"
  /\ sess[last.ref].dirty
  /\ Len(projects[sess[last.ref].project].doc.layouts) > 0
  /\ Len(backups) > 0
  /\ backups[Len(backups)].content
       # Serialize(projects[sess[last.ref].project].doc)
  /\ backups[Len(backups)].content.layouts = <<>>

\* C14: in gdevelop_project_save with createBackup, a backup that fails does
\* not stop the save (the save starts, and when its write succeeds the call
\* succeeds, with no backup made), and a backup that succeeds is complete
\* before the save writes: it holds the file as it was before this save.
C14_BackupNeverBlocksSave ==
  [][\A c \in Calls :
       /\ ProjectSaveBackedUp(c)
            => /\ calls'[c].op = "projectSave"
               /\ calls'[c].pc = "saving"
               /\ calls'[c].content
                    = Serialize(projects[sess[calls[c].ref].project].doc)
               /\ disk' = disk
               /\ last'.result = "backedUp"
                    => backups'[Len(backups')].content
                         = disk[backups'[Len(backups')].of]
               /\ last'.result = "backupFailed"
                    => calls'[c].backupPath = NoPath
       /\ (ToolSaveDone(c) /\ calls[c].op = "projectSave")
            => /\ last'.result = "ok"
               /\ backups' = backups
               /\ last'.backupPath # NoPath
                    => \E i \in 1..Len(backups) :
                         backups[i].of = last'.backupPath]_vars

\* A save with createBackup succeeded on a created, never saved project: the
\* backup had failed, there is no backup, and the file is now written.
C14_Witness ==
  /\ last.op = "projectSave"
  /\ last.result = "ok"
  /\ last.createBackup
  /\ last.backupPath = NoPath
  /\ backups = <<>>
  /\ sess[last.ref].projectPath = "/w/q.json"
  /\ disk["/w/q.json"] = Serialize(projects[sess[last.ref].project].doc)
  /\ Len(projects[sess[last.ref].project].doc.layouts) = 0

\* C15: in every reachable state the scene names of every Document are
\* pairwise distinct, and a scene create, rename or duplicate onto a name
\* that is taken fails and changes nothing.
C15_SceneNamesUnique ==
  /\ [](\A p \in 1..Len(projects) :
          \A i, j \in 1..Len(projects[p].doc.layouts) :
            i # j => projects[p].doc.layouts[i].name
                       # projects[p].doc.layouts[j].name)
  /\ [][last'.op \in {"sceneCreate", "sceneRename", "sceneDuplicate"} =>
        \A id \in ExplicitIds, n \in AllSceneNames, m \in SceneNames :
          LET taken == \E i \in 1..Len(sessions) :
                         /\ sessions[i].id = id
                         /\ \E k \in 1..Len(projects[sess[sessions[i].ref].project].doc.layouts) :
                              projects[sess[sessions[i].ref].project].doc.layouts[k].name = m
          IN
          ((\/ \E f \in BOOLEAN : SceneCreate(id, m, f)
            \/ SceneRename(id, n, m)
            \/ SceneDuplicate(id, n, m)) /\ taken)
            => /\ last'.result \in {"DuplicateName", "NotFound"}
               /\ projects' = projects]_vars

\* A scene create onto a taken name failed in a Document with two scenes.
C15_Witness ==
  /\ last.op = "sceneCreate"
  /\ last.result = "DuplicateName"
  /\ Len(projects[sess[last.ref].project].doc.layouts) = 2

\* C16: in every reachable state the first-scene reference of every Document
\* is unset or names one of its scenes.
C16_FirstSceneExists ==
  \A p \in 1..Len(projects) :
    \/ projects[p].doc.firstLayout = ""
    \/ \E i \in 1..Len(projects[p].doc.layouts) :
         projects[p].doc.layouts[i].name = projects[p].doc.firstLayout

\* C17: a rename that succeeds changes the name of that scene and nothing
\* else of it, keeps every other scene and the order, and sets the
\* first-scene reference to the new name when it held the old one,
\* leaving it as it was otherwise.
C17_RenameKeepsFirstScene ==
  [][(last'.op = "sceneRename" /\ last'.result = "ok") =>
     \A id \in ExplicitIds, n \in AllSceneNames, m \in AllSceneNames :
       SceneRename(id, n, m)
         => LET old == projects[sess[last'.ref].project].doc
                new == projects'[sess[last'.ref].project].doc
            IN
            /\ Len(new.layouts) = Len(old.layouts)
            /\ \A i \in 1..Len(old.layouts) :
                 new.layouts[i] =
                   IF old.layouts[i].name = n
                   THEN [old.layouts[i] EXCEPT !.name = m]
                   ELSE old.layouts[i]
            /\ \E i \in 1..Len(old.layouts) : old.layouts[i].name = n
            /\ new.firstLayout =
                 IF old.firstLayout = n THEN m ELSE old.firstLayout
            /\ [new EXCEPT !.layouts = old.layouts,
                           !.firstLayout = old.firstLayout] = old]_vars

\* The second of two scenes, which is the first scene, was renamed to Menu.
C17_Witness ==
  /\ last.op = "sceneRename"
  /\ last.result = "ok"
  /\ LET d == projects[sess[last.ref].project].doc IN
     /\ Len(d.layouts) = 2
     /\ d.layouts[2].name = "Menu"
     /\ d.firstLayout = "Menu"

\* C18: a layout, global object or global variable operation whose
\* precondition fails (the name is taken, or the thing is missing) throws
\* and leaves every Document and every session (dirty flag and last-modified
\* time included) as it was.
C18_FailedMutationChangesNothing ==
  [][last'.op \in {"sceneCreate", "sceneDelete", "sceneRename", "sceneReorder",
                   "objectCreate", "objectDelete", "createGlobalVariable",
                   "deleteGlobalVariable"} =>
     \A id \in ExplicitIds :
       id \in Registered =>
         LET d == projects[sess[CHOOSE r \in 1..Len(sess) :
                     \E i \in 1..Len(sessions) :
                       sessions[i] = [id |-> id, ref |-> r]].project].doc
             scenes == {d.layouts[i].name : i \in 1..Len(d.layouts)}
             objects == {d.objects[i].name : i \in 1..Len(d.objects)}
             variables == {d.variables[i] : i \in 1..Len(d.variables)}
             failed == /\ last'.result \in {"DuplicateName", "NotFound"}
                       /\ projects' = projects
                       /\ sess' = sess
         IN
         /\ \A n \in AllSceneNames :
              /\ (n \in scenes /\ \E f \in BOOLEAN : SceneCreate(id, n, f))
                   => failed
              /\ (n \notin scenes /\ SceneDelete(id, n)) => failed
              /\ \A m \in AllSceneNames :
                   ((n \notin scenes \/ m \in scenes) /\ SceneRename(id, n, m))
                     => failed
              /\ \A pos \in Positions :
                   (n \notin scenes /\ SceneReorder(id, n, pos)) => failed
         /\ \A n \in ObjectNames :
              /\ (n \in objects
                    /\ \E ty \in ObjectTypes : ObjectCreate(id, n, ty, NoScene))
                   => failed
              /\ (n \notin objects
                    /\ \E b \in BOOLEAN : ObjectDelete(id, n, NoScene, b))
                   => failed
         /\ \A v \in VariableNames :
              /\ (v \in variables /\ CreateGlobalVariable(id, v)) => failed
              /\ (v \notin variables /\ DeleteGlobalVariable(id, v)) => failed]_vars

\* The creation of a global object that already exists failed on a dirty
\* session.
C18_Witness ==
  /\ last.op = "objectCreate"
  /\ last.result = "DuplicateName"
  /\ Len(projects[sess[last.ref].project].doc.objects) = 1
  /\ sess[last.ref].dirty

\* C19: a gdevelop_project_settings call that fails because firstLayout names
\* no scene leaves the Document and the session as they were.
C19_FailedSettingsChangeNothing ==
  [][last'.op = "projectSettings" =>
     \A id \in ExplicitIds, given \in SettingsInputs, n \in SceneNames :
       (/\ ProjectSettings(id, given, n)
        /\ id \in Registered
        /\ "firstLayout" \in given
        /\ last'.result = "NotFound")
         => /\ projects' = projects
            /\ sess' = sess]_vars

\* C20: an object rename that succeeds sets the object name of every instance
\* of the old name, in every scene, to the new name, leaves every other
\* instance as it was, keeps the number of instances of every scene and
\* leaves the session dirty.
C20_ObjectRenameCascades ==
  [][(last'.op = "objectRename" /\ last'.result = "ok") =>
     \A id \in ExplicitIds, n \in ObjectNames, m \in ObjectNames,
        sc \in SceneNames \cup {NoScene} :
       ObjectRename(id, n, m, sc)
         => LET old == projects[sess[last'.ref].project].doc
                new == projects'[sess[last'.ref].project].doc
            IN
            /\ Len(new.layouts) = Len(old.layouts)
            /\ \A i \in 1..Len(old.layouts) :
                 /\ Len(new.layouts[i].instances)
                      = Len(old.layouts[i].instances)
                 /\ \A j \in 1..Len(old.layouts[i].instances) :
                      /\ new.layouts[i].instances[j].objectName =
                           IF old.layouts[i].instances[j].objectName = n
                           THEN m
                           ELSE old.layouts[i].instances[j].objectName
                      /\ new.layouts[i].instances[j].layer
                           = old.layouts[i].instances[j].layer
            /\ sess'[last'.ref].dirty]_vars

\* A global object was renamed to O2 in a Document with two scenes that each
\* hold an instance of it, the second scene holding two.
C20_Witness ==
  /\ last.op = "objectRename"
  /\ last.result = "ok"
  /\ LET d == projects[sess[last.ref].project].doc IN
     /\ Len(d.layouts) = 2
     /\ Len(d.objects) = 1
     /\ d.objects[1].name = "O2"
     /\ d.layouts[1].objects = <<>>
     /\ d.layouts[2].objects = <<>>
     /\ Len(d.layouts[1].instances) = 1
     /\ Len(d.layouts[2].instances) = 2
     /\ \A i \in 1..2 : \A j \in 1..Len(d.layouts[i].instances) :
          d.layouts[i].instances[j].objectName = "O2"

\* C21: gdevelop_instance_create on an existing scene throws object-not-found
\* when no object of the scene's container and no global object has the
\* name, and then changes no Document and no session (dirty flag included);
\* otherwise it succeeds, the scene's instances are the old ones followed by
\* one new instance of that name, every other scene is as it was, and the
\* session is dirty.
C21_InstanceCreateChecksObject ==
  [][last'.op = "instanceCreate" =>
     \A id \in ExplicitIds, sc \in SceneNames, n \in ObjectNames :
       (/\ InstanceCreate(id, sc, n, "")
        /\ id \in Registered
        /\ \E i \in 1..Len(projects[sess[last'.ref].project].doc.layouts) :
             projects[sess[last'.ref].project].doc.layouts[i].name = sc)
         => LET old == projects[sess[last'.ref].project].doc
                new == projects'[sess[last'.ref].project].doc
                k == CHOOSE i \in 1..Len(old.layouts) : old.layouts[i].name = sc
                known ==
                  \/ \E j \in 1..Len(old.layouts[k].objects) :
                       old.layouts[k].objects[j].name = n
                  \/ \E j \in 1..Len(old.objects) : old.objects[j].name = n
            IN
            IF ~known
            THEN /\ last'.result = "ObjectNotFound"
                 /\ projects' = projects
                 /\ sess' = sess
            ELSE /\ last'.result = "ok"
                 /\ Len(new.layouts[k].instances)
                      = Len(old.layouts[k].instances) + 1
                 /\ SubSeq(new.layouts[k].instances, 1,
                           Len(old.layouts[k].instances))
                      = old.layouts[k].instances
                 /\ new.layouts[k].instances[Len(new.layouts[k].instances)]
                      .objectName = n
                 /\ \A i \in 1..Len(old.layouts) :
                      i # k => new.layouts[i] = old.layouts[i]
                 /\ new.layouts[k].objects = old.layouts[k].objects
                 /\ new.objects = old.objects
                 /\ sess'[last'.ref].dirty]_vars

\* An instance of an object that exists only in the other scene's container
\* was refused, in a scene that holds an instance made while the object was
\* global.
C21_Witness ==
  /\ last.op = "instanceCreate"
  /\ last.result = "ObjectNotFound"
  /\ LET d == projects[sess[last.ref].project].doc IN
     /\ Len(d.layouts) = 2
     /\ d.objects = <<>>
     /\ \E k \in 1..2 :
          /\ Len(d.layouts[k].objects) = 1
          /\ Len(d.layouts[k].instances) = 1
          /\ d.layouts[3 - k].objects = <<>>
          /\ Len(d.layouts[3 - k].instances) = 1
          /\ d.layouts[3 - k].instances[1].objectName
               = d.layouts[k].objects[1].name

\* C22: gdevelop_instance_batch answers with one entry per item, in the
\* order of the items; the entry of an item is a success exactly when its
\* object is in the scene's container or the global one; the scene's
\* instances are the old ones followed by one instance per success entry, in
\* order, so an item after a failed one is still treated.
C22_BatchItemsIndependent ==
  [][last'.op = "instanceBatch" =>
     \A id \in ExplicitIds, sc \in SceneNames, items \in BatchInputs :
       (/\ InstanceBatch(id, sc, items)
        /\ last'.result = "ok")
         => LET old == projects[sess[last'.ref].project].doc
                new == projects'[sess[last'.ref].project].doc
                k == CHOOSE i \in 1..Len(old.layouts) : old.layouts[i].name = sc
                known(n) ==
                  \/ \E j \in 1..Len(old.layouts[k].objects) :
                       old.layouts[k].objects[j].name = n
                  \/ \E j \in 1..Len(old.objects) : old.objects[j].name = n
                good == SelectSeq(items, known)
                before == Len(old.layouts[k].instances)
                out == last'.out
            IN
            /\ Len(out) = Len(items)
            /\ \A i \in 1..Len(items) :
                 /\ out[i].objectName = items[i]
                 /\ out[i].success = known(items[i])
            /\ Len(new.layouts[k].instances)
                 = before + Len(SelectSeq(out, LAMBDA r : r.success))
            /\ SubSeq(new.layouts[k].instances, 1, before)
                 = old.layouts[k].instances
            /\ \A i \in 1..Len(good) :
                 new.layouts[k].instances[before + i].objectName = good[i]
            /\ \A i \in 1..Len(old.layouts) :
                 i # k => new.layouts[i] = old.layouts[i]]_vars

\* A batch of an unknown object followed by a known one answered with a
\* failure and then a success, and the scene gained its only instance.
C22_Witness ==
  /\ last.op = "instanceBatch"
  /\ Len(last.out) = 2
  /\ ~last.out[1].success
  /\ last.out[2].success
  /\ last.out[1].objectName # last.out[2].objectName
  /\ LET d == projects[sess[last.ref].project].doc IN
     \E k \in 1..Len(d.layouts) :
       /\ Len(d.layouts[k].instances) = 1
       /\ d.layouts[k].instances[1].objectName = last.out[2].objectName

\* C23: gdevelop_event_list of a scene with depth d answers with one entry
\* for every event whose nesting depth is at most d, the scene's own events
\* being at depth 0, and with no other entry; every entry carries the type,
\* the condition and action counts (for an event that has instruction
\* lists) and the sub-event count of its own event, also at depth d where
\* the sub-events are not visited; no entry lies deeper than d.  When the
\* caller sets includeDisabled to false (true is the default), the disabled
\* events and the events below them are left out of that list.
C23_ListStopsAtDepth ==
  [][last'.op = "eventList" =>
     \A id \in ExplicitIds, depth \in Depths, incl \in BOOLEAN :
       (EventList(id, "Main Scene", depth, incl) /\ last'.result = "ok")
         => LET root == projects[sess[last'.ref].project].doc.layouts[1].events
                out == last'.out
                at(p) ==
                  IF Len(p) = 1 THEN root[p[1] + 1]
                  ELSE IF Len(p) = 2 THEN root[p[1] + 1].events[p[2] + 1]
                  ELSE root[p[1] + 1].events[p[2] + 1].events[p[3] + 1]
                paths1 == {<<i>> : i \in 0..(Len(root) - 1)}
                paths2 == UNION {{<<p[1], j>> :
                                    j \in 0..(Len(at(p).events) - 1)} :
                                 p \in paths1}
                paths3 == UNION {{<<p[1], p[2], j>> :
                                    j \in 0..(Len(at(p).events) - 1)} :
                                 p \in paths2}
                hidden(p) == /\ ~incl
                             /\ \E n \in 1..Len(p) :
                                  at(SubSeq(p, 1, n)).disabled
                expected == {p \in paths1 \cup paths2 \cup paths3 :
                               Len(p) - 1 <= depth /\ ~hidden(p)}
            IN
            /\ {out[i].index : i \in 1..Len(out)} = expected
            /\ Len(out) = Cardinality(expected)
            /\ \A i \in 1..Len(out) :
                 LET event == at(out[i].index) IN
                 /\ Len(out[i].index) <= depth + 1
                 /\ out[i].type = event.type
                 /\ out[i].conditionCount =
                      IF event.type \in {"comment", "group"} THEN {}
                      ELSE {Len(event.conditions)}
                 /\ out[i].actionCount =
                      IF event.type \in {"comment", "group"} THEN {}
                      ELSE {Len(event.actions)}
                 /\ out[i].subEventCount = Len(event.events)
            /\ projects' = projects
            /\ sess' = sess]_vars

\* A list answered with the events of a Group, one of which is reported with
\* its one sub-event, and with no entry for that sub-event.
C23_Witness ==
  /\ last.op = "eventList"
  /\ last.result = "ok"
  /\ \E i \in 1..Len(last.out) :
       /\ Len(last.out[i].index) = 2
       /\ last.out[i].subEventCount = 1
  /\ \A i \in 1..Len(last.out) : Len(last.out[i].index) <= 2
  /\ LET root == projects[sess[last.ref].project].doc.layouts[1].events IN
     \E a \in 1..Len(root) : \E b \in 1..Len(root[a].events) :
       root[a].events[b].events # <<>>

\* C24: a gdevelop_event_create of a standard event with k condition and m
\* action specifications puts one event into the scene's list, at the given
\* position or at the end when none is given, and leaves the other events
\* in their order; the event's conditions are the k specifications and its
\* actions the m specifications, in the order given; a list at depth 0
\* reports k, m and 0 sub-events for it; and the eventIndex of the answer is
\* the index at which the event is.
C24_CreateInsertsAtReportedIndex ==
  [][last'.op = "eventCreate" =>
     \A id \in ExplicitIds, pos \in EventPositions,
        cs \in ConditionLists, as \in ActionLists :
       (/\ EventCreate(id, "Main Scene", "standard", pos, cs, as)
        /\ last'.result = "ok")
         => LET old == projects[sess[last'.ref].project].doc.layouts[1].events
                new == projects'[sess[last'.ref].project].doc.layouts[1].events
                t == IF pos = {} THEN Len(old) ELSE CHOOSE n \in pos : TRUE
                listed == CollectEvents(new, 0, 0, 0, <<>>, TRUE)
            IN
            /\ Len(new) = Len(old) + 1
            /\ t + 1 \in 1..Len(new)
            /\ new[t + 1].type = "standard"
            /\ new[t + 1].events = <<>>
            /\ Len(new[t + 1].conditions) = Len(cs)
            /\ \A i \in 1..Len(cs) :
                 /\ new[t + 1].conditions[i].type = cs[i].type
                 /\ new[t + 1].conditions[i].parameters = cs[i].parameters
                 /\ new[t + 1].conditions[i].inverted = cs[i].inverted
            /\ Len(new[t + 1].actions) = Len(as)
            /\ \A i \in 1..Len(as) :
                 /\ new[t + 1].actions[i].type = as[i].type
                 /\ new[t + 1].actions[i].parameters = as[i].parameters
            /\ \A j \in 1..Len(old) :
                 old[j] = IF j <= t THEN new[j] ELSE new[j + 1]
            /\ \E i \in 1..Len(listed) :
                 /\ listed[i].index = <<t>>
                 /\ listed[i].conditionCount = {Len(cs)}
                 /\ listed[i].actionCount = {Len(as)}
                 /\ listed[i].subEventCount = 0
            /\ last'.out = <<t>>]_vars

\* C25: gdevelop_event_delete with an index below 0 or not below the number
\* of events of the scene throws index-out-of-range and changes no Document
\* and no session; with any other index the scene's events are the old ones
\* without the event at that index: the events before it are as they were,
\* the events after it are one place up, in order, each with what it held,
\* and nothing the deleted event held is left in the list.
C25_DeleteRemovesSubTree ==
  [][last'.op = "eventDelete" =>
     \A id \in ExplicitIds, i \in EventIndexes :
       (EventDelete(id, "Main Scene", i) /\ id \in Registered)
         => LET old == projects[sess[last'.ref].project].doc.layouts[1].events
                new == projects'[sess[last'.ref].project].doc.layouts[1].events
            IN
            IF i < 0 \/ i >= Len(old)
            THEN /\ last'.result = "IndexOutOfRange"
                 /\ projects' = projects
                 /\ sess' = sess
            ELSE /\ last'.result = "ok"
                 /\ Len(new) = Len(old) - 1
                 /\ \A j \in 1..Len(new) :
                      new[j] = IF j <= i THEN old[j] ELSE old[j + 1]
                 /\ sess'[last'.ref].dirty]_vars

\* The Group that held three Standard events was deleted at index 0: the
\* Comment that followed it is the scene's only event, and no event of the
\* scene holds a sub-event.
C25_Witness ==
  /\ last.op = "eventDelete"
  /\ last.result = "ok"
  /\ last.out = <<0>>
  /\ projects[sess[last.ref].project].doc.layouts[1].events
       = <<NewEvent("comment")>>
  /\ sess[last.ref].dirty

\* C26: gdevelop_condition_add and gdevelop_action_add on an event of the
\* list that is a Comment or a Group throw and change no Document and no session; on any other event
\* they put one instruction of the given type, parameters and (for a
\* condition) inverted flag into the list they are about, at the given
\* position or at the end when none is given, and leave the rest of that
\* list in its order, the event's other list, its sub-events and every
\* other event as they were.
C26_InstructionAddedAtPosition ==
  [][last'.op \in {"conditionAdd", "actionAdd"} =>
     \A id \in ExplicitIds, e \in EventIndexes, pos \in EventPositions,
        isCondition \in BOOLEAN :
       LET given == IF isCondition THEN TimerElapsed ELSE HideObject IN
       (/\ InstructionAdd(id, "Main Scene", e, isCondition, given, pos)
        /\ id \in Registered
        /\ e >= 0
        /\ e < Len(projects[sess[last'.ref].project].doc.layouts[1].events))
         => LET old == projects[sess[last'.ref].project].doc.layouts[1].events
                new == projects'[sess[last'.ref].project].doc.layouts[1].events
                before == IF isCondition THEN old[e + 1].conditions
                          ELSE old[e + 1].actions
                after == IF isCondition THEN new[e + 1].conditions
                         ELSE new[e + 1].actions
                t == IF pos = {} THEN Len(before)
                     ELSE CHOOSE n \in pos : TRUE
            IN
            IF old[e + 1].type \in {"comment", "group"}
            THEN /\ last'.result = "UnsupportedOperation"
                 /\ projects' = projects
                 /\ sess' = sess
            ELSE /\ last'.result = "ok"
                 /\ Len(new) = Len(old)
                 /\ \A j \in 1..Len(old) : j # e + 1 => new[j] = old[j]
                 /\ Len(after) = Len(before) + 1
                 /\ t + 1 \in 1..Len(after)
                 /\ after[t + 1].type = given.type
                 /\ after[t + 1].parameters = given.parameters
                 /\ isCondition => after[t + 1].inverted = given.inverted
                 /\ \A j \in 1..Len(before) :
                      before[j] = IF j <= t THEN after[j] ELSE after[j + 1]
                 /\ isCondition => new[e + 1].actions = old[e + 1].actions
                 /\ ~isCondition
                      => new[e + 1].conditions = old[e + 1].conditions
                 /\ new[e + 1].events = old[e + 1].events
                 /\ new[e + 1].type = old[e + 1].type]_vars

\* C27: after every variable operation no variable container of the Document
\* (global, of a scene, of an object) holds a name twice.  A create in a
\* container that holds the name throws duplicate-name and changes nothing,
\* and otherwise appends the name; a delete in a container that lacks the
\* name throws not-found and changes nothing, and otherwise leaves the
\* container without the name (so a create of it succeeds again); a lookup
\* of a global variable throws not-found exactly when the name is absent.
C27_VariableNamesUnique ==
  [][last'.op \in {"variableCreate", "variableDelete", "createGlobalVariable",
                   "deleteGlobalVariable", "getGlobalVariable"} =>
     \A id \in ExplicitIds :
       id \in Registered =>
         LET old == projects[sess[last'.ref].project].doc
             new == projects'[sess[last'.ref].project].doc
             unique(c) == \A a \in 1..Len(c), b \in 1..Len(c) :
                            c[a] = c[b] => a = b
             reached(scope, sc, o) ==
               \/ scope = "global"
               \/ /\ \E i \in 1..Len(old.layouts) : old.layouts[i].name = sc
                  /\ scope = "object" => o # ""
             cont(doc, scope, sc, o) ==
               IF scope = "global" THEN doc.variables
               ELSE LET l == doc.layouts[CHOOSE i \in 1..Len(doc.layouts) :
                                           doc.layouts[i].name = sc]
                    IN
                    IF scope = "scene" THEN l.variables
                    ELSE l.objects[CHOOSE j \in 1..Len(l.objects) :
                                     l.objects[j].name = o].variables
             names(c) == {c[a] : a \in 1..Len(c)}
             created(c, n) ==
               IF n \in names(c)
               THEN /\ last'.result = "DuplicateName"
                    /\ projects' = projects
                    /\ sess' = sess
               ELSE /\ last'.result = "ok"
                    /\ sess'[last'.ref].dirty
             deleted(c, n) ==
               IF n \notin names(c)
               THEN /\ last'.result = "NotFound"
                    /\ projects' = projects
                    /\ sess' = sess
               ELSE /\ last'.result = "ok"
                    /\ sess'[last'.ref].dirty
         IN
         /\ unique(new.variables)
         /\ \A i \in 1..Len(new.layouts) :
              /\ unique(new.layouts[i].variables)
              /\ \A j \in 1..Len(new.layouts[i].objects) :
                   unique(new.layouts[i].objects[j].variables)
         /\ \A n \in ScopedVariableNames :
              /\ \A scope \in Scopes, sc \in {"Main Scene", NoScene},
                    o \in {"O", ""} :
                   /\ (VariableCreate(id, scope, sc, o, n)
                         /\ reached(scope, sc, o))
                        => /\ created(cont(old, scope, sc, o), n)
                           /\ last'.result = "ok" =>
                                cont(new, scope, sc, o)
                                  = Append(cont(old, scope, sc, o), n)
                   /\ (VariableDelete(id, scope, sc, o, n)
                         /\ reached(scope, sc, o))
                        => /\ deleted(cont(old, scope, sc, o), n)
                           /\ last'.result = "ok" =>
                                /\ n \notin names(cont(new, scope, sc, o))
                                /\ names(cont(new, scope, sc, o))
                                     = names(cont(old, scope, sc, o)) \ {n}
              /\ CreateGlobalVariable(id, n)
                   => /\ created(old.variables, n)
                      /\ last'.result = "ok"
                           => new.variables = Append(old.variables, n)
              /\ DeleteGlobalVariable(id, n)
                   => /\ deleted(old.variables, n)
                      /\ last'.result = "ok" => n \notin names(new.variables)
              /\ GetGlobalVariable(id, n)
                   => (last'.result = "NotFound"
                         <=> n \notin names(old.variables))]_vars

\* A create was refused as a duplicate while the global container, the
\* scene's and the object's each hold both names once.
C27_Witness ==
  /\ last.op = "variableCreate"
  /\ last.result = "DuplicateName"
  /\ LET d == projects[sess[last.ref].project].doc IN
     /\ Len(d.variables) = 2
     /\ Len(d.layouts) = 1
     /\ Len(d.layouts[1].variables) = 2
     /\ Len(d.layouts[1].objects) = 1
     /\ Len(d.layouts[1].objects[1].variables) = 2

\* C28: a gdevelop_layer_delete that is given a move target fails when the
\* scene has no layer of that name, and then neither the layers nor the
\* instances change; when it succeeds the instances are the old ones with
\* every instance of the deleted layer put on the target, whatever the
\* target's name (the base layer's empty name included), and no instance is
\* on the deleted layer any more.
C28_MoveTargetReceivesInstances ==
  [][last'.op = "layerDelete" =>
     \A id \in ExplicitIds, l \in LayerNames \cup {""}, t \in MoveTargets :
       (/\ LayerDelete(id, "Main Scene", l, t)
        /\ t # {}
        /\ last'.result \in {"ok", "TargetNotFound"})
         => LET old == projects[sess[last'.ref].project].doc.layouts[1]
                new == projects'[sess[last'.ref].project].doc.layouts[1]
                to == CHOOSE n \in t : TRUE
            IN
            IF ~\E i \in 1..Len(old.layers) : old.layers[i] = to
            THEN /\ last'.result = "TargetNotFound"
                 /\ new = old
            ELSE /\ last'.result = "ok"
                 /\ Len(new.instances) = Len(old.instances)
                 /\ \A i \in 1..Len(old.instances) :
                      /\ old.instances[i].layer = l
                           => new.instances[i].layer = to
                      /\ new.instances[i].layer # l]_vars

\* C29: after every step no two live sessions hold the same Document, also
\* when they were opened from the same path; and a step that is about one
\* session (a mutation, a save or a close, and their continuations) leaves
\* every other live session as it was: its Document, its dirty flag, its
\* path and its two timestamps.
C29_SessionsOwnTheirDocuments ==
  [][/\ \A i \in 1..Len(sessions'), j \in 1..Len(sessions') :
          i # j => sess'[sessions'[i].ref].project
                     # sess'[sessions'[j].ref].project
     /\ \A i \in 1..Len(sessions) :
          LET r == sessions[i].ref IN
          r # last'.ref
            => /\ sess'[r] = sess[r]
               /\ projects'[sess[r].project] = projects[sess[r].project]]_vars

\* Two live sessions of the same path: the one saved a Document with a scene
\* to the file both were opened from, and the other, opened before that, is
\* still clean and without a scene.
C29_Witness ==
  /\ last.op = "projectSave"
  /\ last.result = "ok"
  /\ Len(sessions) = 2
  /\ \E i \in 1..2 :
       LET mine == sess[sessions[i].ref]
           other == sess[sessions[3 - i].ref]
       IN
       /\ sessions[i].ref = last.ref
       /\ mine.projectPath = other.projectPath
       /\ Len(projects[mine.project].doc.layouts) = 1
       /\ Len(disk[mine.projectPath].layouts) = 1
       /\ ~mine.dirty
       /\ projects[other.project].doc.layouts = <<>>
       /\ ~other.dirty
       /\ projects[other.project].doc.name = "Game"

\* C30: a successful gdevelop_object_delete of a global object without
\* removeInstances (ProjectSession.deleteGlobalObject alone) takes the object
\* out of the global container and leaves every scene as it was, instances
\* of the object included; with removeInstances the instances naming the
\* object are taken out of the given scene for a scene object, and out of
\* every scene for a global object, and every other instance stays, in order.
C30_DeleteCascadesOnlyOnRequest ==
  [][(last'.op = "objectDelete" /\ last'.result = "ok") =>
     \A id \in ExplicitIds, n \in ObjectNames,
        sc \in SceneNames \cup {NoScene}, b \in BOOLEAN :
       ObjectDelete(id, n, sc, b)
         => LET old == projects[sess[last'.ref].project].doc
                new == projects'[sess[last'.ref].project].doc
                others(instances) ==
                  SelectSeq(instances, LAMBDA x : x.objectName # n)
            IN
            /\ Len(new.layouts) = Len(old.layouts)
            /\ \A i \in 1..Len(old.layouts) :
                 /\ new.layouts[i].name = old.layouts[i].name
                 /\ new.layouts[i].instances =
                      IF b /\ (sc = NoScene \/ old.layouts[i].name = sc)
                      THEN others(old.layouts[i].instances)
                      ELSE old.layouts[i].instances
                 /\ new.layouts[i].objects =
                      IF old.layouts[i].name = sc
                      THEN SelectSeq(old.layouts[i].objects,
                                     LAMBDA o : o.name # n)
                      ELSE old.layouts[i].objects
            /\ new.objects =
                 IF sc = NoScene
                 THEN SelectSeq(old.objects, LAMBDA o : o.name # n)
                 ELSE old.objects]_vars

\* An object was deleted and is in no container any more, while one scene
\* still holds an instance naming it next to an instance of another object,
\* and the other scene holds none.
C30_Witness ==
  /\ last.op = "objectDelete"
  /\ last.result = "ok"
  /\ LET d == projects[sess[last.ref].project].doc
         n == last.out[1]
     IN
     /\ Len(d.layouts) = 2
     /\ ~\E j \in 1..Len(d.objects) : d.objects[j].name = n
     /\ \A i \in 1..2 : d.layouts[i].objects = <<>>
     /\ \E k \in 1..2 :
          /\ Len(d.layouts[k].instances) = 2
          /\ d.layouts[k].instances[1].objectName = n
          /\ d.layouts[k].instances[2].objectName # n
          /\ d.layouts[3 - k].instances = <<>>

\* C31: a reorder of a name that no scene has fails with not-found and changes
\* nothing; otherwise the scenes after it are the scenes before it, each once,
\* the other scenes keep their relative order, nothing else of the Document
\* changes, and the named scene is at index newPosition when that is an index
\* of the list; a newPosition outside the list loses and duplicates nothing.
C31_ReorderMovesByIndex ==
  [][last'.op = "sceneReorder" =>
     \A id \in ExplicitIds, n \in AllSceneNames, pos \in Positions :
       (SceneReorder(id, n, pos) /\ id \in Registered)
         => LET old == projects[sess[last'.ref].project].doc
                new == projects'[sess[last'.ref].project].doc
                Other(l) == l.name # n
                Named(l) == l.name = n
            IN
            IF \A i \in 1..Len(old.layouts) : old.layouts[i].name # n
            THEN /\ last'.result = "NotFound"
                 /\ UNCHANGED <<projects, sess>>
            ELSE /\ last'.result = "ok"
                 /\ Len(new.layouts) = Len(old.layouts)
                 /\ SelectSeq(new.layouts, Other)
                      = SelectSeq(old.layouts, Other)
                 /\ SelectSeq(new.layouts, Named)
                      = SelectSeq(old.layouts, Named)
                 /\ Len(SelectSeq(new.layouts, Named)) = 1
                 /\ (pos >= 0 /\ pos < Len(old.layouts))
                      => new.layouts[pos + 1].name = n
                 /\ [new EXCEPT !.layouts = old.layouts] = old]_vars

\* Of three scenes the first was moved to the last place, over the other two,
\* which kept their order.
C31_Witness ==
  /\ last.op = "sceneReorder"
  /\ last.result = "ok"
  /\ last.out = <<0, 2>>
  /\ LET d == projects[sess[last.ref].project].doc IN
     /\ Len(d.layouts) = 3
     /\ d.layouts[1].name = "Level"
     /\ d.layouts[2].name = "Menu"
     /\ d.layouts[3].name = "Main Scene"

\* C32: an event update with an index outside the list fails with
\* index-out-of-range and changes nothing; otherwise the addressed event gets
\* the flags that were supplied and keeps a flag that was not, so a call
\* whose supplied values are the current ones leaves the Document as it was;
\* the event's type, instructions and sub-events, its place, and every other
\* event are unchanged.
C32_UpdateSetsFlagsIndependently ==
  [][last'.op = "eventUpdate" =>
     \A id \in ExplicitIds, e \in EventIndexes, dis \in FlagInputs,
        fo \in FlagInputs :
       (EventUpdate(id, "Main Scene", e, dis, fo) /\ id \in Registered)
         => LET old == projects[sess[last'.ref].project].doc
                new == projects'[sess[last'.ref].project].doc
                was == old.layouts[1].events
                now == new.layouts[1].events
            IN
            IF e < 0 \/ e >= Len(was)
            THEN /\ last'.result = "IndexOutOfRange"
                 /\ UNCHANGED <<projects, sess>>
            ELSE /\ last'.result = "ok"
                 /\ Len(now) = Len(was)
                 /\ \A i \in 1..Len(was) : i # e + 1 => now[i] = was[i]
                 /\ now[e + 1].disabled =
                      (IF dis = {} THEN was[e + 1].disabled ELSE TRUE \in dis)
                 /\ now[e + 1].folded =
                      (IF fo = {} THEN was[e + 1].folded ELSE TRUE \in fo)
                 /\ [now[e + 1] EXCEPT !.disabled = was[e + 1].disabled,
                                       !.folded = was[e + 1].folded]
                      = was[e + 1]
                 /\ [new EXCEPT !.layouts[1].events = was] = old
                 /\ ((dis \in {{}, {was[e + 1].disabled}}
                        /\ fo \in {{}, {was[e + 1].folded}})
                      => new = old)]_vars

\* The Group that holds three sub-events was disabled by an earlier call and
\* is now folded by a call that supplied only folded: it is still disabled
\* and still holds its three sub-events.
C32_Witness ==
  /\ last.op = "eventUpdate"
  /\ last.result = "ok"
  /\ last.out = <<0, {}, {TRUE}>>
  /\ LET event == projects[sess[last.ref].project].doc.layouts[1].events[1]
     IN
     /\ event.type = "group"
     /\ event.disabled
     /\ event.folded
     /\ Len(event.events) = 3

\* C33: an event delete, event update, condition add or action add whose
\* index is negative or not below the number of events of the list fails
\* with index-out-of-range and leaves every Document and every session (its
\* dirty flag included) as it was.
C33_IndexOutsideListFails ==
  [][last'.op \in {"eventDelete", "eventUpdate", "conditionAdd", "actionAdd"}
     => \A id \in ExplicitIds, e \in EventIndexes :
          (/\ \/ EventDelete(id, "Main Scene", e)
              \/ \E dis \in FlagInputs, fo \in FlagInputs :
                   EventUpdate(id, "Main Scene", e, dis, fo)
              \/ InstructionAdd(id, "Main Scene", e, TRUE, TimerElapsed, {})
              \/ InstructionAdd(id, "Main Scene", e, FALSE, HideObject, {})
           /\ id \in Registered
           /\ \/ e < 0
              \/ e >= Len(projects[sess[last'.ref].project].doc
                            .layouts[1].events))
            => /\ last'.result = "IndexOutOfRange"
               /\ UNCHANGED <<projects, sess>>]_vars

\* C34: a call of gdevelop_instance_batch, gdevelop_layer_update or
\* gdevelop_event_update that succeeds and leaves the Document as it was
\* (every batch item failed, no property or flag was given, or the values
\* given are the current ones) leaves the dirty flag of its session as it
\* was, so a clean session stays clean.
C34_NoChangeKeepsClean ==
  [][(/\ last'.op \in {"instanceBatch", "layerUpdate", "eventUpdate"}
      /\ last'.result = "ok"
      /\ projects' = projects)
     => sess'[last'.ref].dirty = sess[last'.ref].dirty]_vars

\* C35: after gdevelop_resource_add succeeded for a name, the project has a
\* resource of that name (so that a second add of it fails as already
\* existing and a remove of it succeeds).
C35_AddedResourceExists ==
  [][(last'.op = "resourceAdd" /\ last'.result = "ok")
     => last'.out[1] \in projects'[sess'[last'.ref].project].doc.resources
    ]_vars

\* C36: when a save of a session completes and leaves the session clean, the
\* file at the session's path holds the session's Document: a change that
\* was applied while the save was suspended in its write is either in the
\* written file or the session is dirty.
C36_CleanAfterSaveMeansWritten ==
  [][(/\ last'.op = "projectSave"
      /\ last'.result = "ok"
      /\ ~sess'[last'.ref].dirty)
     => disk'[Resolve(sess'[last'.ref].projectPath)]
          = Serialize(projects'[sess'[last'.ref].project].doc)]_vars

\* C37: whatever closeSession and closeAllSessions calls overlap, the
\* Document of a session is released at most once: no project is deleted a
\* second time, which would be a call on a Document already disposed.
C37_DisposedAtMostOnce ==
  \A p \in 1..Len(projects) : projects[p].deleted <= 1

\* C38: after an object rename that succeeds, every instance of every scene
\* whose object name was the name of an object of its own scene or of a
\* global object before the call still names an object of its own scene or
\* a global object.
C38_RenameLeavesNoDanglingInstance ==
  [][(last'.op = "objectRename" /\ last'.result = "ok")
     => LET old == projects[sess[last'.ref].project].doc
            new == projects'[sess[last'.ref].project].doc
            Resolves(d, k, name) ==
              \/ \E j \in 1..Len(d.layouts[k].objects) :
                   d.layouts[k].objects[j].name = name
              \/ \E j \in 1..Len(d.objects) : d.objects[j].name = name
        IN
        \A k \in 1..Len(old.layouts) :
          \A i \in 1..Len(old.layouts[k].instances) :
            Resolves(old, k, old.layouts[k].instances[i].objectName)
              => Resolves(new, k, new.layouts[k].instances[i].objectName)
    ]_vars

====
